---------------------------- MODULE Spec2Model ----------------------------
(***************************************************************************)
(* State-machine model of the DueNow / edutask backend: the Firestore      *)
(* collections (users, assignments, submissions, grades, feedback,         *)
(* announcements, gradeReviewRequests),                                    *)
(* the route handlers that read and write them, and the helper functions   *)
(* they call.  A handler that awaits the store between a read and a        *)
(* dependent write is modelled as one action per step, so that requests    *)
(* interleave exactly where the code awaits.                               *)
(***************************************************************************)
EXTENDS Integers, Sequences, FiniteSets, TLC

(***************************************************************************)
(* Bounds of the model                                                     *)
(***************************************************************************)
MaxTime == 2
MaxGradingTime == 1
MaxAssignments == 1
MaxSubmissions == 2
MaxGrades == 2
MaxReviewRequests == 2
MaxFeedback == 2
MaxAnnouncements == 2
MaxAttemptsInput == 1
MaxDueDay == 7
MaxCriteria == 3
MaxScore == 105
MaxBelowZero == 5
MaxDocuments == 25
MaxPage == 4

(***************************************************************************)
(* Program constants                                                       *)
(***************************************************************************)
TicksPerDay == 2
DefaultMaxAttempts == 3

Undefined == -1
NoId == 0
NoTime == -1
NoText == "none"

Teachers == {"t1", "t2"}
Students == {"s1", "s2"}
Users == Teachers \cup Students
Procs == {"p1", "p2"}

\* now: the wall clock; users, assignments .. announcements: the
\* collections of the store; pc, local: the step and the local variables of the requests in
\* progress; last: the response sent last; hazards: history of the run, the
\* kinds of request of which two for the same document have overlapped, and
\* "backref_failed" once a back-reference write was rejected by the store
VARIABLES now, users, assignments, nextAssignmentId, submissions, nextSubmissionId,
          grades, gradeReviewRequests, feedback, announcements, pc, local, last, hazards

vars == <<now, users, assignments, nextAssignmentId, submissions, nextSubmissionId,
          grades, gradeReviewRequests, feedback, announcements, pc, local, last, hazards>>

store == <<users, assignments, nextAssignmentId, submissions, nextSubmissionId,
           grades, gradeReviewRequests, feedback, announcements>>

\* req.user.role as authenticate builds it: userData?.role || 'student'
UserRole(u) == IF u \in DOMAIN users THEN users[u].role ELSE "student"

(***************************************************************************)
(* Helpers (utils/helpers.ts)                                              *)
(***************************************************************************)
\* due.setHours(23, 59, 59, 999): the last instant of the day of dueDate
EndOfDay(dueDate) == (dueDate \div TicksPerDay) * TicksPerDay + (TicksPerDay - 1)

\* faulty variant: the due instant itself instead of the end of its day
isOverdueAtDueInstant(dueDate) == now > dueDate

\* new Date() > due
isOverdue(dueDate) == now > EndOfDay(dueDate)

\* now.setHours(0, 0, 0, 0): the first instant of the current day
StartOfDay(t) == (t \div TicksPerDay) * TicksPerDay

\* Math.ceil(x / y) for y > 0
CeilDiv(x, y) == -((-x) \div y)

\* calculatePriorityFromDeadline
calculatePriorityFromDeadline(dueDate) ==
    LET diffTime == EndOfDay(dueDate) - StartOfDay(now)
        diffDays == CeilDiv(diffTime, TicksPerDay)
    IN  IF diffDays <= 2 THEN "high"
        ELSE IF diffDays <= 5 THEN "medium"
        ELSE "low"

\* x ?? d
Coalesce(x, d) == IF x = Undefined THEN d ELSE x

Response(op, u, id, code, data) ==
    [op |-> op, user |-> u, id |-> id, code |-> code, data |-> data]

Idle == [kind |-> "idle"]

AssignmentIds == DOMAIN assignments
SubmissionIds == DOMAIN submissions
GradeIds == DOMAIN grades
ReviewRequestIds == DOMAIN gradeReviewRequests

\* doc.set(): create (or replace) the document id of a collection
SetDoc(coll, id, doc) == [i \in (DOMAIN coll) \cup {id} |-> IF i = id THEN doc ELSE coll[i]]

\* doc.delete() / batch.delete()
DeleteDocs(coll, ids) == [i \in (DOMAIN coll) \ ids |-> coll[i]]

GradeView(g) == [id |-> g, submissionId |-> grades[g].submissionId,
                 status |-> grades[g].status, publishedAt |-> grades[g].publishedAt]

(***************************************************************************)
(* Input domains of the request bodies                                     *)
(***************************************************************************)
DueDateInputs == {Undefined, 0}
AssignmentStatusInputs == {NoText, "draft"}
BoolInputs == {Undefined, 0}
MaxAttemptsInputs == {Undefined} \cup (0..MaxAttemptsInput)
TextInputs == {NoText, "text"}
FileInputs == {NoText, "file"}
PriorityInputs == {NoText, "low"}
\* due dates from today up to MaxDueDay days ahead
PriorityDueDateInputs == {Undefined} \cup {d * TicksPerDay : d \in 0..MaxDueDay}

\* the name an account was registered with: free text, which may or may not
\* be spelled like the account's uid
RegisteredName(u) == IF u = "t2" THEN "t2" ELSE "name"

\* the accounts of the model are registered, the other collections are empty
Init ==
    /\ now = 0
    /\ users = [u \in Users |->
                   [role |-> IF u \in Teachers THEN "teacher" ELSE "student",
                    name |-> RegisteredName(u), enrolledTeachers |-> {}]]
    /\ assignments = <<>>
    /\ nextAssignmentId = 1
    /\ submissions = <<>>
    /\ nextSubmissionId = 1
    /\ grades = <<>>
    /\ gradeReviewRequests = <<>>
    /\ feedback = <<>>
    /\ announcements = <<>>
    /\ pc = [p \in Procs |-> "idle"]
    /\ local = [p \in Procs |-> Idle]
    /\ last = Response("none", "none", NoId, 0, {})
    /\ hazards = {}

\* wall-clock time passes
Tick ==
    /\ now < MaxTime
    /\ now' = now + 1
    /\ UNCHANGED <<store, pc, local, last, hazards>>

\* a handler that answers without writing
Reply(op, u, id, code) ==
    /\ last' = Response(op, u, id, code, {})
    /\ UNCHANGED <<now, store, pc, local, hazards>>

\* a finished request: the process is idle again and the response is sent
Finish(p, resp) ==
    /\ pc' = [pc EXCEPT ![p] = "idle"]
    /\ local' = [local EXCEPT ![p] = Idle]
    /\ last' = resp

\* history: the request that p begins overlaps a request in progress of the same
\* kind for the same document
Overlap(p, kind, key) ==
    IF \E q \in Procs \ {p} : local[q].kind = kind /\ local[q].key = key
    THEN {kind} ELSE {}

(***************************************************************************)
(* Pure helpers (utils/helpers.ts) applied to enumerated inputs.  The      *)
(* result of a call is kept in last.data together with its arguments.      *)
(***************************************************************************)
\* the result of a helper call
Result(op, r) ==
    /\ last' = Response(op, "none", NoId, 0, {r})
    /\ UNCHANGED <<now, store, pc, local, hazards>>

RECURSIVE SumOver(_, _, _)
\* sum of f[i] over the indices i in S
SumOver(f, S, acc) ==
    IF S = {} THEN acc
    ELSE LET i == CHOOSE x \in S : TRUE IN SumOver(f, S \ {i}, acc + f[i])

RubricWeights == {30, 40}
RubricScores == {Undefined, 0, 7, 80, 90}
RubricInputs ==
    UNION {[1..n -> [weight : RubricWeights, score : RubricScores]] : n \in 0..MaxCriteria}

\* Doubles.  A non-negative double is [m |-> bits, e |-> exponent]: the
\* integer whose binary digits are m (most significant first, at most
\* SignificandBits of them after the leading zeros), times 2^e.  Every operation
\* computes the exact result on the digits and rounds it to nearest, ties to
\* even, as IEEE 754 arithmetic does.
SignificandBits == 53
GuardBits == 64
\* the digits are worked on ChunkBits at a time
ChunkBits == 13
ChunkBase == 8192

Zeros(k) == [i \in 1..k |-> 0]

RECURSIVE IntBits(_)
IntBits(n) == IF n = 0 THEN <<>> ELSE Append(IntBits(n \div 2), n % 2)

RECURSIVE BitsInt(_)
BitsInt(bits) ==
    IF bits = <<>> THEN 0
    ELSE 2 * BitsInt(SubSeq(bits, 1, Len(bits) - 1)) + bits[Len(bits)]

StripZeros(bits) ==
    LET ones == {i \in DOMAIN bits : bits[i] = 1}
    IN  IF ones = {} THEN <<>>
        ELSE SubSeq(bits, CHOOSE i \in ones : \A j \in ones : i <= j, Len(bits))

\* bits with leading zeros up to length n
PadLeft(bits, n) == Zeros(n - Len(bits)) \o bits

\* bits with leading zeros up to a whole number of chunks
Chunked(bits) == PadLeft(bits, CeilDiv(Len(bits), ChunkBits) * ChunkBits)

\* the k-th chunk of bits, as an integer
ChunkAt(bits, k) == BitsInt(SubSeq(bits, (k - 1) * ChunkBits + 1, k * ChunkBits))

\* the ChunkBits digits of an integer below ChunkBase
ChunkDigits(v) == PadLeft(IntBits(v), ChunkBits)

RECURSIVE LongDivide(_, _, _, _, _)
\* quotient digits and remainder of bits divided by d, from chunk k on
LongDivide(bits, d, k, rem, quot) ==
    IF k * ChunkBits > Len(bits) THEN [q |-> quot, r |-> rem]
    ELSE LET x == rem * ChunkBase + ChunkAt(bits, k)
         IN  LongDivide(bits, d, k + 1, x % d, quot \o ChunkDigits(x \div d))

RECURSIVE Multiply(_, _, _, _, _)
\* digits of bits times c, from chunk k down
Multiply(bits, c, k, carry, prod) ==
    IF k = 0 THEN IntBits(carry) \o prod
    ELSE LET x == ChunkAt(bits, k) * c + carry
         IN  Multiply(bits, c, k - 1, x \div ChunkBase,
                      ChunkDigits(x % ChunkBase) \o prod)

RECURSIVE AddDigits(_, _, _, _, _)
\* digits of x + y for x and y of equal length, from chunk k down
AddDigits(x, y, k, carry, sum) ==
    IF k = 0 THEN <<carry>> \o sum
    ELSE LET d == ChunkAt(x, k) + ChunkAt(y, k) + carry
         IN  AddDigits(x, y, k - 1, d \div ChunkBase,
                       ChunkDigits(d % ChunkBase) \o sum)

\* digits of x + y
Sum(x, y) ==
    LET n == IF Len(x) >= Len(y) THEN Len(Chunked(x)) ELSE Len(Chunked(y))
    IN  AddDigits(PadLeft(x, n), PadLeft(y, n), n \div ChunkBits, 0, <<>>)

\* digits of bits times c
Product(bits, c) ==
    Multiply(Chunked(bits), c, Len(Chunked(bits)) \div ChunkBits, 0, <<>>)

\* quotient digits and remainder of bits divided by d
Quotient(bits, d) == LongDivide(Chunked(bits), d, 1, 0, <<>>)

\* round the exact value (bits + a fraction, nonzero iff sticky) * 2^e
RoundDouble(bits0, e, sticky) ==
    LET bits == StripZeros(bits0)
    IN  IF Len(bits) <= SignificandBits THEN [m |-> bits, e |-> e]
        ELSE LET keep == SubSeq(bits, 1, SignificandBits)
                 rest == SubSeq(bits, SignificandBits + 1, Len(bits))
                 more == sticky \/ \E i \in 2..Len(rest) : rest[i] = 1
                 up == rest[1] = 1 /\ (more \/ keep[SignificandBits] = 1)
             IN  [m |-> IF up
                        THEN StripZeros(Sum(keep, <<1>>))
                        ELSE keep,
                  e |-> e + Len(rest)]

\* the double of a non-negative integer below 2^SignificandBits
DoubleOf(n) == [m |-> IntBits(n), e |-> 0]

\* x / d for a double x and a positive integer d below 2^9
DoubleDivide(x, d) ==
    LET res == Quotient(x.m \o Zeros(GuardBits), d)
    IN  IF x.m = <<>> THEN x ELSE RoundDouble(res.q, x.e - GuardBits, res.r # 0)

\* x * c for a double x and a positive integer c
DoubleTimes(x, c) == RoundDouble(Product(x.m, c), x.e, FALSE)

\* x + y
DoublePlus(x, y) ==
    LET e == IF x.e <= y.e THEN x.e ELSE y.e
    IN  RoundDouble(Sum(x.m \o Zeros(x.e - e), y.m \o Zeros(y.e - e)), e, FALSE)

\* Math.round of a double below 2^31: the nearest integer, a half rounded up
MathRound(x) ==
    LET n == Len(x.m) + x.e
    IN  IF n < 0 THEN 0
        ELSE IF x.e >= 0 THEN BitsInt(x.m \o Zeros(x.e))
        ELSE BitsInt(SubSeq(x.m, 1, n)) + x.m[n + 1]

RECURSIVE WeightedScore(_, _, _)
\* weightedScore after the criteria from i on
WeightedScore(rubricScores, i, weightedScore) ==
    IF i > Len(rubricScores) THEN weightedScore
    ELSE IF rubricScores[i].score = Undefined
         THEN WeightedScore(rubricScores, i + 1, weightedScore)
    ELSE WeightedScore(rubricScores, i + 1,
            DoublePlus(weightedScore,
               DoubleDivide(DoubleOf(rubricScores[i].score * rubricScores[i].weight),
                            100)))

\* calculateTotalFromRubric
calculateTotalFromRubric(rubricScores) ==
    LET scored == {i \in DOMAIN rubricScores : rubricScores[i].score # Undefined}
        totalWeight == SumOver([i \in scored |-> rubricScores[i].weight], scored, 0)
        weightedScore == WeightedScore(rubricScores, 1, DoubleOf(0))
    IN  IF totalWeight = 0 THEN 0
        ELSE MathRound(DoubleTimes(DoubleDivide(weightedScore, totalWeight), 100))

\* a call of calculateTotalFromRubric
ComputeRubricTotal ==
    \E rubricScores \in RubricInputs :
       Result("calculateTotalFromRubric",
              [rubricScores |-> rubricScores,
               total |-> calculateTotalFromRubric(rubricScores)])

ScoreInputs == (0 - MaxBelowZero)..MaxScore

\* faulty variant: the thresholds are exclusive
calculateLetterGradeExclusive(score) ==
    IF score > 90 THEN "A"
    ELSE IF score > 80 THEN "B"
    ELSE IF score > 70 THEN "C"
    ELSE IF score > 60 THEN "D"
    ELSE "F"

\* calculateLetterGrade
calculateLetterGrade(score) ==
    IF score >= 90 THEN "A"
    ELSE IF score >= 80 THEN "B"
    ELSE IF score >= 70 THEN "C"
    ELSE IF score >= 60 THEN "D"
    ELSE "F"

\* a call of calculateLetterGrade
ComputeLetterGrade ==
    \E score \in ScoreInputs :
       Result("calculateLetterGrade",
              [score |-> score, letter |-> calculateLetterGrade(score)])

\* a query parameter: absent, a text parseInt cannot read, or an integer
QueryValue(n) == [text |-> "int", n |-> n]
AbsentValue == [text |-> "absent", n |-> 0]
UnparseableValue == [text |-> "abc", n |-> 0]
PageInputs == {AbsentValue, UnparseableValue} \cup {QueryValue(n) : n \in (0 - 1)..MaxPage}
LimitInputs ==
    {AbsentValue, UnparseableValue} \cup {QueryValue(n) : n \in {0 - 1, 0, 1, 10, 100, 101}}

\* parseInt: a number or NaN
parseInt(v) == IF v.text = "int" THEN [nan |-> FALSE, n |-> v.n] ELSE [nan |-> TRUE, n |-> 0]

\* x || d on a number: NaN and 0 are falsy
OrElse(x, d) == IF x.nan \/ x.n = 0 THEN d ELSE x.n

Max(a, b) == IF a >= b THEN a ELSE b
Min(a, b) == IF a <= b THEN a ELSE b

\* faulty variant: the limit has no upper clamp
getPaginationParamsUnclamped(query) ==
    LET page == Max(1, OrElse(parseInt(query.page), 1))
        limit == Max(1, OrElse(parseInt(query.limit), 20))
    IN  [page |-> page, limit |-> limit, offset |-> (page - 1) * limit]

\* getPaginationParams
getPaginationParams(query) ==
    LET page == Max(1, OrElse(parseInt(query.page), 1))
        limit == Min(100, Max(1, OrElse(parseInt(query.limit), 20)))
    IN  [page |-> page, limit |-> limit, offset |-> (page - 1) * limit]

\* buildPaginatedResponse
buildPaginatedResponse(data, total, page, limit) ==
    [data |-> data, total |-> total, page |-> page, limit |-> limit,
     totalPages |-> CeilDiv(total, limit)]

\* Array.prototype.slice(from, to) for 0 <= from <= to
slice(array, from, to) == SubSeq(array, Min(from, Len(array)) + 1, Min(to, Len(array)))

\* the sorted matching documents of a list route
Documents(n) == [i \in 1..n |-> i]

\* the pagination of a list route over n sorted matching documents
ListPage(n, query) ==
    LET params == getPaginationParams(query)
        paginated == slice(Documents(n), (params.page - 1) * params.limit,
                           params.page * params.limit)
    IN  buildPaginatedResponse(paginated, n, params.page, params.limit)

\* a call of a list route
ComputeListPage ==
    \E n \in 0..MaxDocuments, page \in PageInputs, limit \in LimitInputs :
       Result("ListPage", [n |-> n, page |-> page, limit |-> limit,
                           response |-> ListPage(n, [page |-> page, limit |-> limit])])

\* each helper called on its own
SpecRubric == Init /\ [][ComputeRubricTotal]_vars

SpecLetterGrade == Init /\ [][ComputeLetterGrade]_vars

SpecListPage == Init /\ [][ComputeListPage]_vars

(***************************************************************************)
(* Authentication middleware (middleware/auth.ts)                          *)
(***************************************************************************)
\* the subjects known to the identity provider: the registered accounts and one
\* subject that has no user document yet
Subjects == Users \cup {"n1"}

\* an Authorization header: its scheme and what follows it; verifyIdToken
\* accepts the tokens of the subjects and throws on any other
CredentialInputs ==
    {[header |-> "absent", token |-> NoText], [header |-> "Basic", token |-> "t1"],
     [header |-> "Bearer", token |-> NoText], [header |-> "Bearer", token |-> "expired"],
     [header |-> "Bearer", token |-> "n1"], [header |-> "Bearer", token |-> "t1"],
     [header |-> "Bearer", token |-> "s1"]}

\* faulty variant: the user document is not looked up
authenticateWithoutUserRecord(c) ==
    IF c.header # "Bearer" THEN [code |-> 401, uid |-> "none"]
    ELSE IF c.token = NoText THEN [code |-> 401, uid |-> "none"]
    ELSE IF c.token \notin Subjects THEN [code |-> 401, uid |-> "none"]
    ELSE [code |-> 200, uid |-> c.token]

\* authenticate: 401, or the uid of req.user
authenticate(c) ==
    IF c.header # "Bearer" THEN [code |-> 401, uid |-> "none"]
    ELSE IF c.token = NoText THEN [code |-> 401, uid |-> "none"]
    ELSE IF c.token \notin Subjects THEN [code |-> 401, uid |-> "none"]
    ELSE IF c.token \notin DOMAIN users THEN [code |-> 401, uid |-> "none"]
    ELSE [code |-> 200, uid |-> c.token]

(***************************************************************************)
(* Registration (routes/auth.ts)                                           *)
(***************************************************************************)
RoleInputs == {NoText, "student", "teacher", "admin"}

\* faulty variant: the existence check is missing
RegisterBeginUnchecked(p, uid, role) ==
    /\ pc[p] = "idle"
    /\ IF role = NoText THEN Reply("Register", uid, NoId, 400)
       ELSE IF role \notin {"student", "teacher"} THEN Reply("Register", uid, NoId, 400)
       ELSE /\ pc' = [pc EXCEPT ![p] = "register_set"]
            /\ local' = [local EXCEPT ![p] =
                   [kind |-> "register", key |-> uid, uid |-> uid, role |-> role]]
            /\ hazards' = hazards \cup Overlap(p, "register", uid)
            /\ UNCHANGED <<now, store, last>>

\* POST /auth/register, up to the existence check
RegisterBegin(p, uid, role) ==
    /\ pc[p] = "idle"
    /\ IF role = NoText THEN Reply("Register", uid, NoId, 400)
       ELSE IF role \notin {"student", "teacher"} THEN Reply("Register", uid, NoId, 400)
       ELSE IF uid \in DOMAIN users THEN Reply("Register", uid, NoId, 409)
       ELSE /\ pc' = [pc EXCEPT ![p] = "register_set"]
            /\ local' = [local EXCEPT ![p] =
                   [kind |-> "register", key |-> uid, uid |-> uid, role |-> role]]
            /\ hazards' = hazards \cup Overlap(p, "register", uid)
            /\ UNCHANGED <<now, store, last>>

\* POST /auth/register: the user document is written
RegisterSet(p) ==
    /\ pc[p] = "register_set"
    /\ users' = SetDoc(users, local[p].uid,
                       [role |-> local[p].role, name |-> RegisteredName(local[p].uid),
                        enrolledTeachers |-> {}])
    /\ pc' = [pc EXCEPT ![p] = "register_claims"]
    /\ UNCHANGED <<now, assignments, nextAssignmentId, submissions, nextSubmissionId,
                   grades, gradeReviewRequests, local, last, hazards,
                   feedback, announcements>>

\* POST /auth/register: setCustomUserClaims succeeds
RegisterClaims(p) ==
    /\ pc[p] = "register_claims"
    /\ Finish(p, Response("Register", local[p].uid, NoId, 201, {}))
    /\ UNCHANGED <<now, store, hazards>>

\* POST /auth/register: setCustomUserClaims throws; the user document stays
RegisterClaimsFail(p) ==
    /\ pc[p] = "register_claims"
    /\ Finish(p, Response("Register", local[p].uid, NoId, 500, {}))
    /\ UNCHANGED <<now, store, hazards>>

(***************************************************************************)
(* Assignment routes (routes/assignments.ts)                               *)
(***************************************************************************)
CreateAssignment(u, dueDate, status, allowLate, maxAtt, priority) ==
    IF UserRole(u) # "teacher" THEN Reply("CreateAssignment", u, NoId, 403)
    ELSE IF dueDate = Undefined THEN Reply("CreateAssignment", u, NoId, 400)
    ELSE /\ nextAssignmentId <= MaxAssignments
         /\ assignments' = SetDoc(assignments, nextAssignmentId,
                [teacherId |-> u,
                 status |-> IF status = NoText THEN "published" ELSE status,
                 dueDate |-> dueDate,
                 priority |-> calculatePriorityFromDeadline(dueDate),
                 allowLateSubmission |-> (Coalesce(allowLate, 1) = 1),
                 maxAttempts |-> Coalesce(maxAtt, DefaultMaxAttempts)])
         /\ nextAssignmentId' = nextAssignmentId + 1
         /\ last' = Response("CreateAssignment", u, nextAssignmentId, 201, {})
         /\ UNCHANGED <<now, users, submissions, nextSubmissionId, grades,
                        gradeReviewRequests, pc, local, hazards,
                   feedback, announcements>>

\* faulty variant: a priority in the request body is stored
UpdateAssignmentTakesPriority(u, a, dueDate, status, allowLate, maxAtt, priority) ==
    IF UserRole(u) # "teacher" THEN Reply("UpdateAssignment", u, a, 403)
    ELSE IF a \notin AssignmentIds THEN Reply("UpdateAssignment", u, a, 404)
    ELSE IF assignments[a].teacherId # u THEN Reply("UpdateAssignment", u, a, 403)
    ELSE /\ assignments' = [assignments EXCEPT ![a] =
                [teacherId |-> @.teacherId,
                 status |-> IF status = NoText THEN @.status ELSE status,
                 dueDate |-> IF dueDate = Undefined THEN @.dueDate ELSE dueDate,
                 priority |-> IF priority # NoText THEN priority
                              ELSE IF dueDate = Undefined THEN @.priority
                              ELSE calculatePriorityFromDeadline(dueDate),
                 allowLateSubmission |-> IF allowLate = Undefined
                                         THEN @.allowLateSubmission ELSE (allowLate = 1),
                 maxAttempts |-> IF maxAtt = Undefined THEN @.maxAttempts ELSE maxAtt]]
         /\ last' = Response("UpdateAssignment", u, a, 200, {})
         /\ UNCHANGED <<now, users, nextAssignmentId, submissions, nextSubmissionId, grades,
                        gradeReviewRequests, pc, local, hazards,
                   feedback, announcements>>

\* PUT /assignments/:id
UpdateAssignment(u, a, dueDate, status, allowLate, maxAtt, priority) ==
    IF UserRole(u) # "teacher" THEN Reply("UpdateAssignment", u, a, 403)
    ELSE IF a \notin AssignmentIds THEN Reply("UpdateAssignment", u, a, 404)
    ELSE IF assignments[a].teacherId # u THEN Reply("UpdateAssignment", u, a, 403)
    ELSE /\ assignments' = [assignments EXCEPT ![a] =
                [teacherId |-> @.teacherId,
                 status |-> IF status = NoText THEN @.status ELSE status,
                 dueDate |-> IF dueDate = Undefined THEN @.dueDate ELSE dueDate,
                 priority |-> IF dueDate = Undefined THEN @.priority
                              ELSE calculatePriorityFromDeadline(dueDate),
                 allowLateSubmission |-> IF allowLate = Undefined
                                         THEN @.allowLateSubmission ELSE (allowLate = 1),
                 maxAttempts |-> IF maxAtt = Undefined THEN @.maxAttempts ELSE maxAtt]]
         /\ last' = Response("UpdateAssignment", u, a, 200, {})
         /\ UNCHANGED <<now, users, nextAssignmentId, submissions, nextSubmissionId, grades,
                        gradeReviewRequests, pc, local, hazards,
                   feedback, announcements>>

\* faulty variant: the ownership check is missing
SetAssignmentStatusAnyTeacher(op, u, a, status) ==
    IF UserRole(u) # "teacher" THEN Reply(op, u, a, 403)
    ELSE IF a \notin AssignmentIds THEN Reply(op, u, a, 404)
    ELSE /\ assignments' = [assignments EXCEPT ![a].status = status]
         /\ last' = Response(op, u, a, 200, {})
         /\ UNCHANGED <<now, users, nextAssignmentId, submissions, nextSubmissionId, grades,
                        gradeReviewRequests, pc, local, hazards,
                   feedback, announcements>>

\* POST /assignments/:id/close and POST /assignments/:id/publish
SetAssignmentStatus(op, u, a, status) ==
    IF UserRole(u) # "teacher" THEN Reply(op, u, a, 403)
    ELSE IF a \notin AssignmentIds THEN Reply(op, u, a, 404)
    ELSE IF assignments[a].teacherId # u THEN Reply(op, u, a, 403)
    ELSE /\ assignments' = [assignments EXCEPT ![a].status = status]
         /\ last' = Response(op, u, a, 200, {})
         /\ UNCHANGED <<now, users, nextAssignmentId, submissions, nextSubmissionId, grades,
                        gradeReviewRequests, pc, local, hazards,
                   feedback, announcements>>

CloseAssignment(u, a) == SetAssignmentStatus("CloseAssignment", u, a, "closed")

PublishAssignment(u, a) == SetAssignmentStatus("PublishAssignment", u, a, "published")

\* history: a POST /submissions for assignment a is between its validation and
\* its write
SubmitInProgress(a) ==
    IF \E p \in Procs : local[p].kind = "submit" /\ local[p].assignmentId = a
    THEN {"delete"} ELSE {}

\* faulty variant: the assignment document is deleted without the cascade
DeleteAssignmentNoCascade(u, a) ==
    IF UserRole(u) # "teacher" THEN Reply("DeleteAssignment", u, a, 403)
    ELSE IF a \notin AssignmentIds THEN Reply("DeleteAssignment", u, a, 404)
    ELSE IF assignments[a].teacherId # u THEN Reply("DeleteAssignment", u, a, 403)
    ELSE /\ assignments' = DeleteDocs(assignments, {a})
         /\ hazards' = hazards \cup SubmitInProgress(a)
         /\ last' = Response("DeleteAssignment", u, a, 200, {})
         /\ UNCHANGED <<now, users, nextAssignmentId, submissions, nextSubmissionId, grades,
                        gradeReviewRequests, pc, local,
                   feedback, announcements>>

\* DELETE /assignments/:id.  Once the assignment document is gone no new
\* POST /submissions passes validation, so the submissions that can escape the
\* cascade are those of requests already past validation when the delete runs.
DeleteAssignment(u, a) ==
    IF UserRole(u) # "teacher" THEN Reply("DeleteAssignment", u, a, 403)
    ELSE IF a \notin AssignmentIds THEN Reply("DeleteAssignment", u, a, 404)
    ELSE IF assignments[a].teacherId # u THEN Reply("DeleteAssignment", u, a, 403)
    ELSE /\ assignments' = DeleteDocs(assignments, {a})
         /\ submissions' = DeleteDocs(submissions,
                               {s \in SubmissionIds : submissions[s].assignmentId = a})
         /\ hazards' = hazards \cup SubmitInProgress(a)
         /\ last' = Response("DeleteAssignment", u, a, 200, {})
         /\ UNCHANGED <<now, users, nextAssignmentId, nextSubmissionId, grades,
                        gradeReviewRequests, pc, local,
                   feedback, announcements>>

(***************************************************************************)
(* Enrolment (routes/auth.ts) and the read routes of assignments           *)
(***************************************************************************)
\* POST /auth/enroll
Enroll(u, teacherId) ==
    IF UserRole(u) # "student" THEN Reply("Enroll", u, NoId, 403)
    ELSE IF teacherId = NoText THEN Reply("Enroll", u, NoId, 400)
    ELSE IF teacherId \notin DOMAIN users \/ users[teacherId].role # "teacher"
         THEN Reply("Enroll", u, NoId, 404)
    ELSE IF teacherId \in users[u].enrolledTeachers THEN Reply("Enroll", u, NoId, 409)
    ELSE /\ users' = [users EXCEPT ![u].enrolledTeachers = @ \cup {teacherId}]
         /\ last' = Response("Enroll", u, NoId, 200, {})
         /\ UNCHANGED <<now, assignments, nextAssignmentId, submissions, nextSubmissionId,
                        grades, gradeReviewRequests, feedback, announcements,
                        pc, local, hazards>>

\* DELETE /auth/enroll/:teacherId
Unenroll(u, teacherId) ==
    IF UserRole(u) # "student" THEN Reply("Unenroll", u, NoId, 403)
    ELSE /\ users' = [users EXCEPT ![u].enrolledTeachers = @ \ {teacherId}]
         /\ last' = Response("Unenroll", u, NoId, 200, {})
         /\ UNCHANGED <<now, assignments, nextAssignmentId, submissions, nextSubmissionId,
                        grades, gradeReviewRequests, feedback, announcements,
                        pc, local, hazards>>

AssignmentView(a) ==
    [id |-> a, teacherId |-> assignments[a].teacherId, status |-> assignments[a].status]

\* faulty variant: a student is shown every assignment
ListAssignmentsUnfiltered(u, status, teacherId) ==
    /\ last' = Response("ListAssignments", u, NoId, 200,
                        {AssignmentView(a) : a \in AssignmentIds})
    /\ UNCHANGED <<now, store, pc, local, hazards>>

\* GET /assignments with the query parameters status and teacherId; the
\* matching documents fit on the first page
ListAssignments(u, status, teacherId) ==
    /\ last' = Response("ListAssignments", u, NoId, 200,
          IF UserRole(u) = "student"
          THEN IF users[u].enrolledTeachers = {}
               THEN {AssignmentView(a) : a \in {x \in AssignmentIds :
                        assignments[x].status \in {"published", "closed"}}}
               ELSE {AssignmentView(a) : a \in {x \in AssignmentIds :
                        /\ assignments[x].teacherId \in users[u].enrolledTeachers
                        /\ assignments[x].status \in {"published", "closed"}}}
          ELSE LET targetTeacherId == IF teacherId = NoText THEN u ELSE teacherId
               IN  {AssignmentView(a) : a \in {x \in AssignmentIds :
                        /\ assignments[x].teacherId = targetTeacherId
                        /\ (status # NoText => assignments[x].status = status)}})
    /\ UNCHANGED <<now, store, pc, local, hazards>>

\* GET /assignments/:id
GetAssignment(u, a) ==
    IF a \notin AssignmentIds THEN Reply("GetAssignment", u, a, 404)
    ELSE IF UserRole(u) = "student" /\ assignments[a].status \notin {"published", "closed"}
         THEN Reply("GetAssignment", u, a, 403)
    ELSE /\ last' = Response("GetAssignment", u, a, 200, {AssignmentView(a)})
         /\ UNCHANGED <<now, store, pc, local, hazards>>

(***************************************************************************)
(* Submission routes (routes/submissions.ts)                               *)
(***************************************************************************)
\* faulty variant: the existence query compares the wrong field and matches nothing
ExistingSubmissionsWrongField(a, u) ==
    {s \in SubmissionIds : submissions[s].assignmentId = a /\ submissions[s].status = u}

\* the documents of one student for one assignment
ExistingSubmissions(a, u) ==
    {s \in SubmissionIds : submissions[s].assignmentId = a /\ submissions[s].studentId = u}

\* number of requests that are about to create a document of a collection
Creating(label) == Cardinality({p \in Procs : pc[p] = label})

\* POST /submissions, up to the read of the assignment
SubmitBegin(p, u, a, text, file, integrity) ==
    /\ pc[p] = "idle"
    /\ IF UserRole(u) # "student" THEN Reply("Submit", u, a, 403)
       ELSE IF text = NoText /\ file = NoText THEN Reply("Submit", u, a, 400)
       ELSE IF ~integrity THEN Reply("Submit", u, a, 400)
       ELSE IF a \notin AssignmentIds THEN Reply("Submit", u, a, 404)
       ELSE IF assignments[a].status # "published" THEN Reply("Submit", u, a, 400)
       ELSE IF isOverdue(assignments[a].dueDate) /\ ~assignments[a].allowLateSubmission
            THEN Reply("Submit", u, a, 400)
       ELSE /\ pc' = [pc EXCEPT ![p] = "submit_query"]
            /\ local' = [local EXCEPT ![p] =
                   [kind |-> "submit", key |-> <<a, u>>, user |-> u, assignmentId |-> a,
                    textContent |-> text, fileUrl |-> file,
                    assignmentOverdue |-> isOverdue(assignments[a].dueDate),
                    maxAttempts |-> assignments[a].maxAttempts,
                    existing |-> NoId, currentAttempt |-> 0, attemptHistory |-> <<>>]]
            /\ hazards' = hazards \cup Overlap(p, "submit", <<a, u>>)
            /\ UNCHANGED <<now, store, last>>

\* faulty variant: one attempt too many
AttemptsExhaustedOffByOne(currentAttempt, maxAttempts) == currentAttempt > maxAttempts

\* existingSubmission.currentAttempt >= assignment.maxAttempts
AttemptsExhausted(currentAttempt, maxAttempts) == currentAttempt >= maxAttempts

\* POST /submissions, the query for an existing submission and the attempt check
SubmitQuery(p) ==
    /\ pc[p] = "submit_query"
    /\ LET l == local[p]
           found == ExistingSubmissions(l.assignmentId, l.user)
       IN  IF found = {}
           THEN /\ nextSubmissionId + Creating("submit_create") <= MaxSubmissions
                /\ pc' = [pc EXCEPT ![p] = "submit_create"]
                /\ UNCHANGED <<now, store, local, last, hazards>>
           ELSE \E e \in found :
                  IF AttemptsExhausted(submissions[e].currentAttempt, l.maxAttempts)
                  THEN /\ Finish(p, Response("Submit", l.user, l.assignmentId, 400, {}))
                       /\ UNCHANGED <<now, store, hazards>>
                  ELSE /\ pc' = [pc EXCEPT ![p] = "submit_update"]
                       /\ local' = [local EXCEPT ![p] =
                              [l EXCEPT !.existing = e,
                                        !.currentAttempt = submissions[e].currentAttempt,
                                        !.attemptHistory = submissions[e].attemptHistory]]
                       /\ UNCHANGED <<now, store, last, hazards>>

\* faulty variant: every attempt is numbered 1
NewAttemptUnnumbered(n, text, file) ==
    [attemptNumber |-> 1, textContent |-> text, fileUrl |-> file]

NewAttempt(n, text, file) == [attemptNumber |-> n, textContent |-> text, fileUrl |-> file]

\* faulty variant: the update keeps only the new attempt in attemptHistory
SubmitUpdateDroppingHistory(p) ==
    /\ pc[p] = "submit_update"
    /\ LET l == local[p]
           e == l.existing
       IN  IF e \notin SubmissionIds
           THEN \* update() of a deleted document throws: 500
                /\ Finish(p, Response("Submit", l.user, l.assignmentId, 500, {}))
                /\ UNCHANGED <<now, store, hazards>>
           ELSE /\ submissions' = [submissions EXCEPT ![e] =
                       [@ EXCEPT
                          !.status = IF l.assignmentOverdue THEN "late" ELSE "submitted",
                          !.attemptHistory = Append(<<>>,
                               NewAttempt(l.currentAttempt + 1, l.textContent, l.fileUrl)),
                          !.currentAttempt = l.currentAttempt + 1,
                          !.textContent = IF l.textContent # NoText THEN l.textContent ELSE @,
                          !.fileUrl = IF l.fileUrl # NoText THEN l.fileUrl ELSE @]]
                /\ Finish(p, Response("Submit", l.user, l.assignmentId, 200, {}))
                /\ UNCHANGED <<now, users, assignments, nextAssignmentId, nextSubmissionId,
                               grades, gradeReviewRequests, hazards,
                   feedback, announcements>>

\* POST /submissions, the update of the existing document
SubmitUpdate(p) ==
    /\ pc[p] = "submit_update"
    /\ LET l == local[p]
           e == l.existing
       IN  IF e \notin SubmissionIds
           THEN \* update() of a deleted document throws: 500
                /\ Finish(p, Response("Submit", l.user, l.assignmentId, 500, {}))
                /\ UNCHANGED <<now, store, hazards>>
           ELSE /\ submissions' = [submissions EXCEPT ![e] =
                       [@ EXCEPT
                          !.status = IF l.assignmentOverdue THEN "late" ELSE "submitted",
                          !.attemptHistory = Append(l.attemptHistory,
                               NewAttempt(l.currentAttempt + 1, l.textContent, l.fileUrl)),
                          !.currentAttempt = l.currentAttempt + 1,
                          !.textContent = IF l.textContent # NoText THEN l.textContent ELSE @,
                          !.fileUrl = IF l.fileUrl # NoText THEN l.fileUrl ELSE @]]
                /\ Finish(p, Response("Submit", l.user, l.assignmentId, 200, {}))
                /\ UNCHANGED <<now, users, assignments, nextAssignmentId, nextSubmissionId,
                               grades, gradeReviewRequests, hazards,
                   feedback, announcements>>

\* POST /submissions, the creation of the first document
SubmitCreate(p) ==
    /\ pc[p] = "submit_create"
    /\ LET l == local[p]
       IN  /\ submissions' = SetDoc(submissions, nextSubmissionId,
                  [assignmentId |-> l.assignmentId,
                   studentId |-> l.user,
                   status |-> IF l.assignmentOverdue THEN "late" ELSE "submitted",
                   attemptHistory |-> <<NewAttempt(1, l.textContent, l.fileUrl)>>,
                   currentAttempt |-> 1,
                   textContent |-> l.textContent,
                   fileUrl |-> l.fileUrl,
                   gradeId |-> NoId,
                   feedbackId |-> NoId])
           /\ nextSubmissionId' = nextSubmissionId + 1
           /\ Finish(p, Response("Submit", l.user, l.assignmentId, 201, {}))
           /\ UNCHANGED <<now, users, assignments, nextAssignmentId, grades,
                          gradeReviewRequests, hazards,
                   feedback, announcements>>

(***************************************************************************)
(* Read routes of submissions (routes/submissions.ts)                      *)
(***************************************************************************)
\* the grade a submission response embeds: the document gradeId points to
EmbeddedGrade(s) ==
    IF submissions[s].gradeId # NoId /\ submissions[s].gradeId \in GradeIds
    THEN {GradeView(submissions[s].gradeId)} ELSE {}

TeacherAssignmentIds(u) == {a \in AssignmentIds : assignments[a].teacherId = u}

\* GET /submissions (no query filter)
ListSubmissions(u) ==
    /\ last' = Response("ListSubmissions", u, NoId, 200,
                  UNION {EmbeddedGrade(s) : s \in
                      IF UserRole(u) = "student"
                      THEN {x \in SubmissionIds : submissions[x].studentId = u}
                      ELSE {x \in SubmissionIds :
                              submissions[x].assignmentId \in TeacherAssignmentIds(u)}})
    /\ UNCHANGED <<now, store, pc, local, hazards>>

\* GET /submissions/:id
GetSubmission(u, s) ==
    IF s \notin SubmissionIds THEN Reply("GetSubmission", u, s, 404)
    ELSE IF UserRole(u) = "student" /\ submissions[s].studentId # u
         THEN Reply("GetSubmission", u, s, 403)
    ELSE IF UserRole(u) = "teacher"
            /\ submissions[s].assignmentId \notin TeacherAssignmentIds(u)
         THEN Reply("GetSubmission", u, s, 403)
    ELSE /\ last' = Response("GetSubmission", u, s, 200, EmbeddedGrade(s))
         /\ UNCHANGED <<now, store, pc, local, hazards>>

(***************************************************************************)
(* Grade routes (routes/grading.ts)                                        *)
(***************************************************************************)
GradeStatusInputs == {NoText, "draft", "finalized"}

\* rubricScores of a request body or of a grade document: absent, or an array
\* of criteria whose score is a number, which sanitizeRubricScores keeps
NoRubric == [given |-> FALSE, scores |-> <<>>]
Rubric(rubricScores) == [given |-> TRUE, scores |-> rubricScores]

\* the score fields of a request body: rubricScores, totalScore and letterGrade
\* (numericScore and comments are stored as they come and read by no handler)
NoScores == [rubricScores |-> NoRubric, totalScore |-> Undefined, letterGrade |-> NoText]

\* GET /grading/grades
ListGrades(u, status) ==
    /\ last' = Response("ListGrades", u, NoId, 200,
          IF UserRole(u) = "student"
          THEN {GradeView(g) : g \in {x \in GradeIds :
                   /\ grades[x].submissionId \in
                          {s \in SubmissionIds : submissions[s].studentId = u}
                   /\ grades[x].status = "finalized"}}
          ELSE {GradeView(g) : g \in {x \in GradeIds :
                   /\ grades[x].submissionId \in
                          {s \in SubmissionIds :
                              submissions[s].assignmentId \in TeacherAssignmentIds(u)}
                   /\ (status # NoText => grades[x].status = status)}})
    /\ UNCHANGED <<now, store, pc, local, hazards>>

\* faulty variant: the status of the grade is not checked
GetGradeAnyStatus(u, g) ==
    IF g \notin GradeIds THEN Reply("GetGrade", u, g, 404)
    ELSE IF grades[g].submissionId \notin SubmissionIds THEN Reply("GetGrade", u, g, 404)
    ELSE IF UserRole(u) = "student" /\ submissions[grades[g].submissionId].studentId # u
         THEN Reply("GetGrade", u, g, 403)
    ELSE /\ last' = Response("GetGrade", u, g, 200, {GradeView(g)})
         /\ UNCHANGED <<now, store, pc, local, hazards>>

\* GET /grading/grades/:id
GetGrade(u, g) ==
    IF g \notin GradeIds THEN Reply("GetGrade", u, g, 404)
    ELSE IF grades[g].submissionId \notin SubmissionIds THEN Reply("GetGrade", u, g, 404)
    ELSE IF UserRole(u) = "student"
            /\ (submissions[grades[g].submissionId].studentId # u
                \/ grades[g].status # "finalized")
         THEN Reply("GetGrade", u, g, 403)
    ELSE /\ last' = Response("GetGrade", u, g, 200, {GradeView(g)})
         /\ UNCHANGED <<now, store, pc, local, hazards>>

\* POST /grading/grades, up to the check of the back-reference
CreateGradeBegin(p, u, s, status, scores) ==
    /\ pc[p] = "idle"
    /\ IF UserRole(u) # "teacher" THEN Reply("CreateGrade", u, s, 403)
       ELSE IF s \notin SubmissionIds THEN Reply("CreateGrade", u, s, 404)
       ELSE IF submissions[s].assignmentId \notin TeacherAssignmentIds(u)
            THEN Reply("CreateGrade", u, s, 403)
       ELSE IF submissions[s].gradeId # NoId THEN Reply("CreateGrade", u, s, 409)
       ELSE /\ Cardinality(GradeIds) + Creating("grade_set") < MaxGrades
            /\ pc' = [pc EXCEPT ![p] = "grade_set"]
            /\ local' = [local EXCEPT ![p] =
                   [kind |-> "grade", key |-> s, user |-> u, submissionId |-> s,
                    status |-> IF status = NoText THEN "draft" ELSE status,
                    publishedAt |-> IF status = "finalized" THEN now ELSE NoTime,
                    rubricScores |-> scores.rubricScores,
                    totalScore |->
                       IF scores.rubricScores.given /\ Len(scores.rubricScores.scores) > 0
                       THEN calculateTotalFromRubric(scores.rubricScores.scores)
                       ELSE scores.totalScore,
                    letterGrade |->
                       IF /\ scores.rubricScores.given
                          /\ Len(scores.rubricScores.scores) > 0
                          /\ scores.letterGrade = NoText
                       THEN calculateLetterGrade(
                               calculateTotalFromRubric(scores.rubricScores.scores))
                       ELSE scores.letterGrade,
                    id |-> NoId]]
            /\ hazards' = hazards \cup Overlap(p, "grade", s)
            /\ UNCHANGED <<now, store, last>>

\* POST /grading/grades, the write of the grade document
CreateGradeSet(p) ==
    /\ pc[p] = "grade_set"
    /\ LET l == local[p]
           id == Cardinality(GradeIds) + 1
       IN  /\ grades' = SetDoc(grades, id,
                  [submissionId |-> l.submissionId, teacherId |-> l.user,
                   status |-> l.status, publishedAt |-> l.publishedAt,
                   rubricScores |-> l.rubricScores, totalScore |-> l.totalScore,
                   letterGrade |-> l.letterGrade])
           /\ pc' = [pc EXCEPT ![p] = "grade_backref"]
           /\ local' = [local EXCEPT ![p] = [l EXCEPT !.id = id]]
           /\ UNCHANGED <<now, users, assignments, nextAssignmentId, submissions,
                          nextSubmissionId, gradeReviewRequests, last, hazards,
                   feedback, announcements>>

\* faulty variant: the back-reference is not written
CreateGradeBackrefForgotten(p) ==
    /\ pc[p] = "grade_backref"
    /\ Finish(p, Response("CreateGrade", local[p].user, local[p].submissionId, 201, {}))
    /\ UNCHANGED <<now, store, hazards>>

\* POST /grading/grades, the write of the back-reference into the submission
CreateGradeBackref(p) ==
    /\ pc[p] = "grade_backref"
    /\ LET l == local[p]
       IN  IF l.submissionId \notin SubmissionIds
           THEN \* update() of a deleted document throws: 500
                /\ Finish(p, Response("CreateGrade", l.user, l.submissionId, 500, {}))
                /\ UNCHANGED <<now, store, hazards>>
           ELSE /\ submissions' = [submissions EXCEPT ![l.submissionId].gradeId = l.id]
                /\ Finish(p, Response("CreateGrade", l.user, l.submissionId, 201, {}))
                /\ UNCHANGED <<now, users, assignments, nextAssignmentId, nextSubmissionId,
                               grades, gradeReviewRequests, hazards,
                   feedback, announcements>>

\* POST /grading/grades, the store rejects the second write: caught, 500
CreateGradeBackrefFails(p) ==
    /\ pc[p] = "grade_backref"
    /\ Finish(p, Response("CreateGrade", local[p].user, local[p].submissionId, 500, {}))
    /\ hazards' = hazards \cup {"backref_failed"}
    /\ UNCHANGED <<now, store>>

\* PUT /grading/grades/:id with a body that carries at most a status, handled
\* with no other request in between
UpdateGrade(u, g, status) ==
    IF UserRole(u) # "teacher" THEN Reply("UpdateGrade", u, g, 403)
    ELSE IF g \notin GradeIds THEN Reply("UpdateGrade", u, g, 404)
    ELSE IF grades[g].teacherId # u THEN Reply("UpdateGrade", u, g, 403)
    ELSE IF status = NoText THEN Reply("UpdateGrade", u, g, 400)
    ELSE /\ grades' = [grades EXCEPT ![g] =
                [@ EXCEPT !.status = status,
                          !.publishedAt = IF status = "finalized" /\ @ = NoTime
                                          THEN now ELSE @]]
         /\ last' = Response("UpdateGrade", u, g, 200, {})
         /\ UNCHANGED <<now, users, assignments, nextAssignmentId, submissions,
                        nextSubmissionId, gradeReviewRequests, pc, local, hazards,
                   feedback, announcements>>

\* PUT /grading/grades/:id, up to the update: the grade is read and updateData
\* is built
UpdateGradeBegin(p, u, g, status, scores) ==
    /\ pc[p] = "idle"
    /\ IF UserRole(u) # "teacher" THEN Reply("UpdateGrade", u, g, 403)
       ELSE IF g \notin GradeIds THEN Reply("UpdateGrade", u, g, 404)
       ELSE IF grades[g].teacherId # u THEN Reply("UpdateGrade", u, g, 403)
       ELSE IF status = NoText /\ scores = NoScores THEN Reply("UpdateGrade", u, g, 400)
       ELSE /\ pc' = [pc EXCEPT ![p] = "grade_update"]
            /\ local' = [local EXCEPT ![p] =
                   [kind |-> "update", key |-> g, user |-> u, id |-> g,
                    status |-> status, scores |-> scores,
                    setPublishedAt |-> (status = "finalized"
                                        /\ grades[g].publishedAt = NoTime),
                    publishedAt |-> now]]
            /\ hazards' = hazards \cup Overlap(p, "update", g)
            /\ UNCHANGED <<now, store, last>>

\* faulty variant: a status of 'finalized' is written without publishedAt
UpdateGradeWriteUnstamped(p) ==
    /\ pc[p] = "grade_update"
    /\ LET l == local[p]
       IN  /\ grades' = [grades EXCEPT ![l.id] =
                  [@ EXCEPT !.status = IF l.status # NoText THEN l.status ELSE @]]
           /\ Finish(p, Response("UpdateGrade", l.user, l.id, 200, {}))
           /\ UNCHANGED <<now, users, assignments, nextAssignmentId, submissions,
                          nextSubmissionId, gradeReviewRequests, feedback, announcements,
                          hazards>>

\* PUT /grading/grades/:id, the update of the grade document
UpdateGradeWrite(p) ==
    /\ pc[p] = "grade_update"
    /\ LET l == local[p]
       IN  /\ grades' = [grades EXCEPT ![l.id] =
                  [@ EXCEPT
                     !.letterGrade = IF l.scores.letterGrade # NoText
                                     THEN l.scores.letterGrade ELSE @,
                     !.rubricScores = IF l.scores.rubricScores.given
                                      THEN l.scores.rubricScores ELSE @,
                     !.totalScore =
                        IF l.scores.totalScore # Undefined THEN l.scores.totalScore
                        ELSE IF l.scores.rubricScores.given
                             THEN calculateTotalFromRubric(l.scores.rubricScores.scores)
                        ELSE @,
                     !.status = IF l.status # NoText THEN l.status ELSE @,
                     !.publishedAt = IF l.setPublishedAt THEN l.publishedAt ELSE @]]
           /\ Finish(p, Response("UpdateGrade", l.user, l.id, 200, {}))
           /\ UNCHANGED <<now, users, assignments, nextAssignmentId, submissions,
                          nextSubmissionId, gradeReviewRequests, feedback, announcements,
                          hazards>>

\* the status of the response to publishing a grade that is already finalized
AlreadyPublishedCode == 400

\* history: a PUT /grading/grades/:id for grade g is between its read and its
\* update
UpdateInProgress(g) ==
    IF \E p \in Procs : local[p].kind = "update" /\ local[p].key = g
    THEN {"update"} ELSE {}

\* POST /grading/grades/:id/publish
PublishGrade(u, g) ==
    IF UserRole(u) # "teacher" THEN Reply("PublishGrade", u, g, 403)
    ELSE IF g \notin GradeIds THEN Reply("PublishGrade", u, g, 404)
    ELSE IF grades[g].teacherId # u THEN Reply("PublishGrade", u, g, 403)
    ELSE IF grades[g].status = "finalized"
         THEN Reply("PublishGrade", u, g, AlreadyPublishedCode)
    ELSE /\ grades' = [grades EXCEPT ![g] =
                [@ EXCEPT !.status = "finalized", !.publishedAt = now]]
         /\ hazards' = hazards \cup UpdateInProgress(g)
         /\ last' = Response("PublishGrade", u, g, 200, {})
         /\ UNCHANGED <<now, users, assignments, nextAssignmentId, submissions,
                        nextSubmissionId, gradeReviewRequests, pc, local,
                        feedback, announcements>>

(***************************************************************************)
(* Feedback routes (routes/grading.ts), one request at a time: the steps   *)
(* of a handler run together                                               *)
(***************************************************************************)
FeedbackIds == DOMAIN feedback

\* POST /grading/feedback
CreateFeedback(u, s, content) ==
    IF UserRole(u) # "teacher" THEN Reply("CreateFeedback", u, s, 403)
    ELSE IF content = NoText THEN Reply("CreateFeedback", u, s, 400)
    ELSE IF s \notin SubmissionIds THEN Reply("CreateFeedback", u, s, 404)
    ELSE IF submissions[s].assignmentId \notin TeacherAssignmentIds(u)
         THEN Reply("CreateFeedback", u, s, 403)
    ELSE LET id == Cardinality(FeedbackIds) + 1
         IN  /\ id <= MaxFeedback
             /\ feedback' = SetDoc(feedback, id,
                    [submissionId |-> s, teacherId |-> u, content |-> content])
             /\ submissions' = [submissions EXCEPT ![s].feedbackId = id]
             /\ last' = Response("CreateFeedback", u, s, 201, {})
             /\ UNCHANGED <<now, users, assignments, nextAssignmentId, nextSubmissionId,
                            grades, gradeReviewRequests, announcements, pc, local, hazards>>

\* PUT /grading/feedback/:id
UpdateFeedback(u, f, content) ==
    IF UserRole(u) # "teacher" THEN Reply("UpdateFeedback", u, f, 403)
    ELSE IF f \notin FeedbackIds THEN Reply("UpdateFeedback", u, f, 404)
    ELSE IF feedback[f].teacherId # u THEN Reply("UpdateFeedback", u, f, 403)
    ELSE /\ feedback' = [feedback EXCEPT ![f].content =
                            IF content = NoText THEN @ ELSE content]
         /\ last' = Response("UpdateFeedback", u, f, 200, {})
         /\ UNCHANGED <<now, users, assignments, nextAssignmentId, submissions,
                        nextSubmissionId, grades, gradeReviewRequests, announcements,
                        pc, local, hazards>>

(***************************************************************************)
(* Announcement routes (routes/announcements.ts)                           *)
(***************************************************************************)
AnnouncementTypeInputs == {NoText, "global", "assignment"}

\* POST /announcements
CreateAnnouncement(u, type, assignmentId) ==
    IF UserRole(u) # "teacher" THEN Reply("CreateAnnouncement", u, NoId, 403)
    ELSE IF type = NoText THEN Reply("CreateAnnouncement", u, NoId, 400)
    ELSE IF type = "assignment" /\ assignmentId = NoId
         THEN Reply("CreateAnnouncement", u, NoId, 400)
    ELSE IF type = "assignment" /\ assignmentId \notin AssignmentIds
         THEN Reply("CreateAnnouncement", u, NoId, 404)
    ELSE IF type = "assignment" /\ assignments[assignmentId].teacherId # u
         THEN Reply("CreateAnnouncement", u, NoId, 403)
    ELSE LET id == Len(announcements) + 1
         IN  /\ id <= MaxAnnouncements
             /\ announcements' = Append(announcements,
                    [type |-> type, assignmentId |-> assignmentId, createdAt |-> now,
                     createdBy |-> u, creatorName |-> users[u].name])
             /\ last' = Response("CreateAnnouncement", u, id, 201, {})
             /\ UNCHANGED <<now, users, assignments, nextAssignmentId, submissions,
                            nextSubmissionId, grades, gradeReviewRequests, feedback,
                            pc, local, hazards>>

\* the ids of the announcements a query matches, in the order of the snapshot
Snapshot(matching) ==
    SelectSeq([i \in 1..Len(announcements) |-> i], LAMBDA i : i \in matching)

\* the announcements of one type
OfType(type) == {i \in DOMAIN announcements : announcements[i].type = type}

RECURSIVE NewestFirst(_)
\* announcements.sort by createdAt, descending (the sort is stable)
NewestFirst(ids) ==
    IF ids = <<>> THEN <<>>
    ELSE LET rest == NewestFirst(Tail(ids))
             newer(i) == announcements[i].createdAt > announcements[Head(ids)].createdAt
         IN  SelectSeq(rest, newer) \o <<Head(ids)>>
                \o SelectSeq(rest, LAMBDA i : ~newer(i))

RECURSIVE Unique(_)
\* new Map(announcements.map(a => [a.id, a])).values(): each id once, at the
\* place of its first occurrence
Unique(ids) ==
    IF ids = <<>> THEN <<>>
    ELSE LET init == Unique(SubSeq(ids, 1, Len(ids) - 1))
         IN  IF \E j \in DOMAIN init : init[j] = ids[Len(ids)] THEN init
             ELSE Append(init, ids[Len(ids)])

\* GET /announcements with the query parameters type and assignmentId; the
\* announcements fit on the first page
ListAnnouncements(u, type, assignmentId) ==
    LET global == IF type \in {NoText, "global"} THEN Snapshot(OfType("global")) ELSE <<>>
        published == {a \in AssignmentIds : assignments[a].status \in {"published", "closed"}}
        specific ==
           IF type \notin {NoText, "assignment"} THEN <<>>
           ELSE IF assignmentId # NoId
                THEN Snapshot({i \in OfType("assignment") :
                                 announcements[i].assignmentId = assignmentId})
           ELSE IF UserRole(u) = "student"
                THEN Snapshot({i \in OfType("assignment") :
                                 announcements[i].assignmentId \in published})
           ELSE Snapshot({i \in OfType("assignment") :
                            announcements[i].createdBy = users[u].name})
    IN  /\ last' = Response("ListAnnouncements", u, NoId, 200,
              {[type |-> type, assignmentId |-> assignmentId,
                items |-> Unique(NewestFirst(global \o specific))]})
        /\ UNCHANGED <<now, store, pc, local, hazards>>

(***************************************************************************)
(* Grade review request routes (routes/grading.ts)                         *)
(***************************************************************************)
MessageInputs == {NoText, "message"}

\* faulty variant: the pre-check asks for a status no request has
PendingRequestsWrongStatus(g) ==
    {r \in ReviewRequestIds : gradeReviewRequests[r].gradeId = g
                              /\ gradeReviewRequests[r].status = "Pending"}

\* the pre-check query: the pending requests of a grade
PendingRequests(g) ==
    {r \in ReviewRequestIds : gradeReviewRequests[r].gradeId = g
                              /\ gradeReviewRequests[r].status = "pending"}

\* POST /grading/review-requests, up to the pre-check for a pending request
CreateReviewRequestBegin(p, u, g, message) ==
    /\ pc[p] = "idle"
    /\ IF UserRole(u) # "student" THEN Reply("CreateReviewRequest", u, g, 403)
       ELSE IF message = NoText THEN Reply("CreateReviewRequest", u, g, 400)
       ELSE IF g \notin GradeIds THEN Reply("CreateReviewRequest", u, g, 404)
       ELSE IF grades[g].submissionId \notin SubmissionIds
            THEN Reply("CreateReviewRequest", u, g, 404)
       ELSE IF submissions[grades[g].submissionId].studentId # u
            THEN Reply("CreateReviewRequest", u, g, 403)
       ELSE IF PendingRequests(g) # {} THEN Reply("CreateReviewRequest", u, g, 409)
       ELSE IF submissions[grades[g].submissionId].assignmentId \notin AssignmentIds
            THEN \* assignment.title of a missing document throws: 500
                 Reply("CreateReviewRequest", u, g, 500)
       ELSE /\ Cardinality(ReviewRequestIds) + Creating("review_set") < MaxReviewRequests
            /\ pc' = [pc EXCEPT ![p] = "review_set"]
            /\ local' = [local EXCEPT ![p] =
                   [kind |-> "review", key |-> g, user |-> u, gradeId |-> g,
                    teacherId |-> grades[g].teacherId]]
            /\ hazards' = hazards \cup Overlap(p, "review", g)
            /\ UNCHANGED <<now, store, last>>

\* POST /grading/review-requests, the write of the request document
CreateReviewRequestSet(p) ==
    /\ pc[p] = "review_set"
    /\ LET l == local[p]
       IN  /\ gradeReviewRequests' = SetDoc(gradeReviewRequests,
                  Cardinality(ReviewRequestIds) + 1,
                  [gradeId |-> l.gradeId, studentId |-> l.user, teacherId |-> l.teacherId,
                   status |-> "pending", respondedAt |-> NoTime,
                   responseMessage |-> NoText])
           /\ Finish(p, Response("CreateReviewRequest", l.user, l.gradeId, 201, {}))
           /\ UNCHANGED <<now, users, assignments, nextAssignmentId, submissions,
                          nextSubmissionId, grades, hazards,
                   feedback, announcements>>

\* faulty variant: the status of the request is not checked
IsPendingUnchecked(r) == TRUE

\* request.status !== 'pending'
IsPending(r) == gradeReviewRequests[r].status = "pending"

\* PUT /grading/review-requests/:id/respond, up to the check of the status
RespondBegin(p, u, r, status, message) ==
    /\ pc[p] = "idle"
    /\ IF UserRole(u) # "teacher" THEN Reply("Respond", u, r, 403)
       ELSE IF status \notin {"accepted", "declined"} THEN Reply("Respond", u, r, 400)
       ELSE IF r \notin ReviewRequestIds THEN Reply("Respond", u, r, 404)
       ELSE IF gradeReviewRequests[r].teacherId # u THEN Reply("Respond", u, r, 403)
       ELSE IF ~IsPending(r) THEN Reply("Respond", u, r, 400)
       ELSE /\ pc' = [pc EXCEPT ![p] = "respond_update"]
            /\ local' = [local EXCEPT ![p] =
                   [kind |-> "respond", key |-> r, user |-> u, id |-> r,
                    status |-> status, message |-> message]]
            /\ hazards' = hazards \cup Overlap(p, "respond", r)
            /\ UNCHANGED <<now, store, last>>

\* PUT /grading/review-requests/:id/respond, the update of the request
RespondUpdate(p) ==
    /\ pc[p] = "respond_update"
    /\ LET l == local[p]
       IN  /\ gradeReviewRequests' = [gradeReviewRequests EXCEPT ![l.id] =
                  [@ EXCEPT !.status = l.status, !.respondedAt = now,
                            !.responseMessage = l.message]]
           /\ Finish(p, Response("Respond", l.user, l.id, 200, {}))
           /\ UNCHANGED <<now, users, assignments, nextAssignmentId, submissions,
                          nextSubmissionId, grades, hazards,
                   feedback, announcements>>

(***************************************************************************)
(* Specifications                                                          *)
(***************************************************************************)
\* no request is between two of its steps
Quiet == \A p \in Procs : pc[p] = "idle"

\* the assignment routes, called by the users U with request bodies over the
\* given domains
AssignmentRequests(U, D, S, AL, MA, P) ==
    \/ \E u \in U, d \in D, st \in S, al \in AL, ma \in MA, pr \in P :
          CreateAssignment(u, d, st, al, ma, pr)
    \/ \E u \in U, a \in 1..MaxAssignments, d \in D, st \in S, al \in AL, ma \in MA,
          pr \in P : UpdateAssignment(u, a, d, st, al, ma, pr)
    \/ \E u \in U, a \in 1..MaxAssignments : CloseAssignment(u, a)
    \/ \E u \in U, a \in 1..MaxAssignments : PublishAssignment(u, a)
    \/ \E u \in U, a \in 1..MaxAssignments : DeleteAssignment(u, a)

\* the later steps of POST /submissions
SubmitSteps ==
    \/ \E p \in Procs : SubmitQuery(p)
    \/ \E p \in Procs : SubmitUpdate(p)
    \/ \E p \in Procs : SubmitCreate(p)

\* assignments and submissions; requests interleave wherever a handler awaits
NextSubmissions ==
    \/ Tick
    \/ AssignmentRequests({"t1"}, DueDateInputs, AssignmentStatusInputs,
                          BoolInputs, MaxAttemptsInputs, {NoText})
    \/ \E p \in Procs, a \in 1..MaxAssignments :
          SubmitBegin(p, "s1", a, "text", NoText, TRUE)
    \/ SubmitSteps

SpecSubmissions == Init /\ [][NextSubmissions]_vars

\* assignments and submissions; one request at a time
NextSubmissionsSerial ==
    \/ Tick
    \/ Quiet /\ AssignmentRequests({"t1", "s1"}, DueDateInputs, AssignmentStatusInputs,
                                   BoolInputs, MaxAttemptsInputs, {NoText})
    \/ \E u \in Users, a \in 1..MaxAssignments, t \in TextInputs, i \in BOOLEAN :
          Quiet /\ SubmitBegin("p1", u, a, t, NoText, i)
    \/ SubmitSteps

SpecSubmissionsSerial == Init /\ [][NextSubmissionsSerial]_vars

\* the assignment routes called by every user, owner or not; one student
\* submits; one request at a time
NextAssignments ==
    \/ Tick
    \/ Quiet /\ AssignmentRequests(Users, PriorityDueDateInputs, AssignmentStatusInputs,
                                   {Undefined}, {Undefined}, PriorityInputs)
    \/ \E a \in 1..MaxAssignments :
          Quiet /\ SubmitBegin("p1", "s1", a, "text", NoText, TRUE)
    \/ SubmitSteps

SpecAssignments == Init /\ [][NextAssignments]_vars

\* re-submissions: one assignment that allows DefaultMaxAttempts attempts; a
\* student submits text, a file or both, and the requests interleave
NextResubmit ==
    \/ Quiet /\ CreateAssignment("t1", 0, NoText, Undefined, Undefined, NoText)
    \/ \E p \in Procs, a \in 1..MaxAssignments, t \in TextInputs, f \in FileInputs :
          SubmitBegin(p, "s1", a, t, f, TRUE)
    \/ SubmitSteps

SpecResubmit == Init /\ [][NextResubmit]_vars

\* the read routes of assignments: teachers create, edit, close, publish and
\* delete assignments, students enrol and unenrol, and every user lists and reads
NextListings ==
    \/ AssignmentRequests(Teachers, {0}, AssignmentStatusInputs, {Undefined},
                          {Undefined}, {NoText})
    \/ \E u \in Users, t \in Users \cup {NoText} : Enroll(u, t)
    \/ \E u \in Users, t \in Teachers : Unenroll(u, t)
    \/ \E u \in Users, st \in AssignmentStatusInputs, t \in Teachers \cup {NoText} :
          ListAssignments(u, st, t)
    \/ \E u \in Users, a \in 1..MaxAssignments : GetAssignment(u, a)

SpecListings == Init /\ [][NextListings]_vars

\* what the grading specifications need of the other routes: a teacher creates
\* and deletes assignments and the students S submit, one request at a time
\* (the assignment allows one attempt, so no submission is ever updated)
GradingSetup(S) ==
    \/ Quiet /\ CreateAssignment("t1", 0, NoText, Undefined, 1, NoText)
    \/ \E a \in 1..MaxAssignments : Quiet /\ DeleteAssignment("t1", a)
    \/ \E u \in S, a \in 1..MaxAssignments :
          Quiet /\ SubmitBegin("p1", u, a, "text", NoText, TRUE)
    \/ \E p \in Procs : SubmitQuery(p)
    \/ \E p \in Procs : SubmitCreate(p)

\* the clock of the grading specifications
GradingTick == now < MaxGradingTime /\ Tick

\* the read routes that show grades, called by the users U
GradingReads(U) ==
    \/ \E u \in U : ListSubmissions(u)
    \/ \E u \in U, s \in 1..MaxSubmissions : GetSubmission(u, s)
    \/ \E u \in U : ListGrades(u, NoText)
    \/ \E u \in U, g \in 1..MaxGrades : GetGrade(u, g)

\* the later steps of POST /grading/grades
CreateGradeSteps ==
    \/ \E p \in Procs : CreateGradeSet(p)
    \/ \E p \in Procs : CreateGradeBackref(p)
    \/ \E p \in Procs : CreateGradeBackrefFails(p)

\* PUT /grading/grades/:id and POST /grading/grades/:id/publish
GradeUpdates ==
    \/ \E g \in 1..MaxGrades, st \in GradeStatusInputs : UpdateGrade("t1", g, st)
    \/ \E g \in 1..MaxGrades : PublishGrade("t1", g)

\* grades; POST /grading/grades requests interleave
NextGrades ==
    \/ GradingTick
    \/ GradingSetup(Students)
    \/ GradingReads(Students)
    \/ \E p \in Procs, s \in 1..MaxSubmissions, st \in {NoText, "finalized"} :
          CreateGradeBegin(p, "t1", s, st, NoScores)
    \/ CreateGradeSteps
    \/ GradeUpdates

SpecGrades == Init /\ [][NextGrades]_vars

\* what the review specifications need of grades: a teacher grades, one
\* request at a time
ReviewSetup ==
    \/ \E s \in 1..MaxSubmissions : Quiet /\ CreateGradeBegin("p1", "t1", s, NoText, NoScores)
    \/ CreateGradeSteps

\* the later steps of the review request routes
ReviewSteps ==
    \/ \E p \in Procs : CreateReviewRequestSet(p)
    \/ \E p \in Procs : RespondUpdate(p)

\* review requests; the review request routes interleave
NextReviews ==
    \/ GradingTick
    \/ GradingSetup({"s1"})
    \/ ReviewSetup
    \/ \E p \in Procs, u \in Students, g \in 1..MaxGrades :
          CreateReviewRequestBegin(p, u, g, "message")
    \/ \E p \in Procs, r \in 1..MaxReviewRequests, st \in {"accepted", "declined"},
          m \in MessageInputs : RespondBegin(p, "t1", r, st, m)
    \/ ReviewSteps

SpecReviews == Init /\ [][NextReviews]_vars

\* feedback; one request at a time
NextFeedback ==
    \/ GradingSetup({"s1"})
    \/ \E u \in Users, x \in 1..MaxSubmissions, c \in {NoText, "good", "better"} :
          Quiet /\ CreateFeedback(u, x, c)
    \/ \E u \in Users, f \in 1..MaxFeedback, c \in {NoText, "good", "better"} :
          Quiet /\ UpdateFeedback(u, f, c)

SpecFeedback == Init /\ [][NextFeedback]_vars

\* announcements: teachers create assignments and announcements, every user
\* lists
NextAnnouncements ==
    \/ Tick
    \/ \E u \in Teachers : CreateAssignment(u, 0, NoText, Undefined, Undefined, NoText)
    \/ \E u \in Users, t \in AnnouncementTypeInputs, a \in 0..MaxAssignments :
          CreateAnnouncement(u, t, a)
    \/ \E u \in Users, t \in AnnouncementTypeInputs, a \in 0..MaxAssignments :
          ListAnnouncements(u, t, a)

SpecAnnouncements == Init /\ [][NextAnnouncements]_vars

\* the scores of the requests that update a grade: none, a rubric, a total
ScoreBodyInputs ==
    {NoScores,
     [NoScores EXCEPT !.rubricScores = Rubric(<<[weight |-> 40, score |-> 50]>>)],
     [NoScores EXCEPT !.totalScore = 70]}

\* the rubric of the requests that create a grade
CreatedRubric == Rubric(<<[weight |-> 40, score |-> 90]>>)

\* grade updates: every grade is created from rubric scores without a letter
\* grade and its back-reference is written, no PUT supplies a letter grade, and
\* the PUT requests interleave
NextGradeUpdates ==
    \/ GradingTick
    \/ Quiet /\ CreateAssignment("t1", 0, NoText, Undefined, 1, NoText)
    \/ \E a \in 1..MaxAssignments : Quiet /\ SubmitBegin("p1", "s1", a, "text", NoText, TRUE)
    \/ \E p \in Procs : SubmitQuery(p)
    \/ \E p \in Procs : SubmitCreate(p)
    \/ \E x \in 1..MaxSubmissions, st \in {NoText, "finalized"} :
          Quiet /\ CreateGradeBegin("p1", "t1", x, st,
                      [rubricScores |-> CreatedRubric, totalScore |-> Undefined,
                       letterGrade |-> NoText])
    \/ \E p \in Procs : CreateGradeSet(p)
    \/ \E p \in Procs : CreateGradeBackref(p)
    \/ \E p \in Procs, g \in 1..MaxGrades, st \in GradeStatusInputs,
          scores \in ScoreBodyInputs : UpdateGradeBegin(p, "t1", g, st, scores)
    \/ \E p \in Procs : UpdateGradeWrite(p)
    \/ \E g \in 1..MaxGrades : PublishGrade("t1", g)

SpecGradeUpdates == Init /\ [][NextGradeUpdates]_vars

\* the routes mounted behind authenticate and requireTeacher / requireStudent
GuardedOps ==
    {"CreateAssignment", "UpdateAssignment", "CloseAssignment", "PublishAssignment",
     "DeleteAssignment", "Submit", "CreateGrade", "UpdateGrade", "PublishGrade",
     "CreateReviewRequest", "Respond"}

\* the handler of a guarded route, run for req.user u on document id
Handler(op, u, id) ==
    CASE op = "CreateAssignment" -> CreateAssignment(u, 0, NoText, Undefined, Undefined, NoText)
      [] op = "UpdateAssignment" -> UpdateAssignment(u, id, 0, NoText, Undefined, Undefined, NoText)
      [] op = "CloseAssignment" -> CloseAssignment(u, id)
      [] op = "PublishAssignment" -> PublishAssignment(u, id)
      [] op = "DeleteAssignment" -> DeleteAssignment(u, id)
      [] op = "Submit" -> SubmitBegin("p1", u, id, "text", NoText, TRUE)
      [] op = "CreateGrade" -> CreateGradeBegin("p1", u, id, "finalized", NoScores)
      [] op = "UpdateGrade" -> UpdateGrade(u, id, "finalized")
      [] op = "PublishGrade" -> PublishGrade(u, id)
      [] op = "CreateReviewRequest" -> CreateReviewRequestBegin("p1", u, id, "message")
      [] op = "Respond" -> RespondBegin("p1", u, id, "accepted", NoText)

\* a request to a guarded route carrying the credential c: authenticate, then
\* the role middleware and the handler
Guarded(op, c, id) ==
    IF authenticate(c).code = 401 THEN Reply(op, "none", id, 401)
    ELSE Handler(op, authenticate(c).uid, id)

\* every guarded route called with every credential, one request at a time
NextGuards ==
    \/ \E op \in GuardedOps, c \in CredentialInputs, id \in 1..MaxGrades :
          Quiet /\ Guarded(op, c, id)
    \/ SubmitSteps
    \/ CreateGradeSteps
    \/ ReviewSteps

SpecGuards == Init /\ [][NextGuards]_vars

\* registration of a new and of a registered subject; requests interleave, and
\* the registered subjects call a guarded route
NextAccounts ==
    \/ \E p \in Procs, uid \in {"n1", "s1"}, role \in RoleInputs :
          RegisterBegin(p, uid, role)
    \/ \E p \in Procs : RegisterSet(p)
    \/ \E p \in Procs : RegisterClaims(p)
    \/ \E p \in Procs : RegisterClaimsFail(p)
    \/ \E uid \in {"n1", "s1"} :
          Guarded("CreateAssignment", [header |-> "Bearer", token |-> uid], NoId)

SpecAccounts == Init /\ [][NextAccounts]_vars

(***************************************************************************)
(* Properties                                                              *)
(***************************************************************************)
\* this step sends the response to the request op of user u about document id
Answered(op, u, id) ==
    last' # last /\ last'.op = op /\ last'.user = u /\ last'.id = id

\* this step answers a request without any step of a request in progress
Rejected(op, u, id) == Answered(op, u, id) /\ pc' = pc

StoreUnchanged == store' = store

\* C1: through no endpoint does a student receive the data of a grade whose
\* status is not 'finalized' (grade list, grade by id, and the grade embedded
\* in the submission list and in the submission by id).
C1_StudentsSeeOnlyFinalizedGrades ==
    last.user \in Students => \A g \in last.data : g.status = "finalized"

\* C2 as claimed: a student fetching a grade by id gets 403 whenever the grade
\* is 'draft' or the submission belongs to another student, and 200 once the
\* grade of the student's own submission is finalized; the student's grade
\* list holds only finalized grades of the student's own submissions.
C2_DraftOrForeignGradeIs403 ==
    [][\A u \in Students :
         /\ \A g \in GradeIds : Answered("GetGrade", u, g) =>
              LET s == grades[g].submissionId
              IN  /\ (grades[g].status = "draft"
                      \/ (s \in SubmissionIds /\ submissions[s].studentId # u))
                        => last'.code = 403
                  /\ (s \in SubmissionIds /\ submissions[s].studentId = u
                      /\ grades[g].status = "finalized") => last'.code = 200
         /\ Answered("ListGrades", u, NoId) =>
              \A v \in last'.data :
                 /\ v.status = "finalized"
                 /\ v.submissionId \in SubmissionIds
                 /\ submissions[v.submissionId].studentId = u]_vars

\* C2 amended: while the underlying submission document exists, a student
\* fetching a grade by id gets 403 whenever the grade is 'draft' or the
\* submission belongs to another student, and 200 with the grade once the grade
\* of the student's own submission is finalized; when the submission document
\* no longer exists the fetch gets 404, whatever the status; the student's
\* grade list holds only finalized grades of the student's own submissions.
C2_GradeVisibility ==
    [][\A u \in Students :
         /\ \A g \in GradeIds : Answered("GetGrade", u, g) =>
              LET s == grades[g].submissionId
              IN  /\ s \notin SubmissionIds => last'.code = 404
                  /\ (s \in SubmissionIds
                      /\ (grades[g].status = "draft" \/ submissions[s].studentId # u))
                        => last'.code = 403
                  /\ (s \in SubmissionIds /\ submissions[s].studentId = u
                      /\ grades[g].status = "finalized")
                        => last'.code = 200 /\ \E v \in last'.data : v.id = g
         /\ Answered("ListGrades", u, NoId) =>
              \A v \in last'.data :
                 /\ v.status = "finalized"
                 /\ v.submissionId \in SubmissionIds
                 /\ submissions[v.submissionId].studentId = u]_vars

\* C2 witness: a student was refused the draft grade of the student's own
\* submission.
C2_Witness ==
    /\ last.op = "GetGrade" /\ last.code = 403 /\ last.user \in Students
    /\ last.id \in GradeIds
    /\ grades[last.id].status = "draft"
    /\ grades[last.id].submissionId \in SubmissionIds
    /\ submissions[grades[last.id].submissionId].studentId = last.user

OneSubmissionPerPair ==
    \A x, y \in SubmissionIds :
       (submissions[x].assignmentId = submissions[y].assignmentId
        /\ submissions[x].studentId = submissions[y].studentId) => x = y

\* C3 as claimed: in every reachable state there is at most one submission
\* document per (assignment, student) pair, also when two POST /submissions of
\* the same student for the same assignment interleave.
C3_OneSubmissionPerPair == OneSubmissionPerPair

\* C3 amended: there is at most one submission document per (assignment,
\* student) pair as long as no two POST /submissions requests of the same
\* student for the same assignment have been in progress at the same time.
C3_OneSubmissionPerPairUnlessOverlap ==
    "submit" \notin hazards => OneSubmissionPerPair

\* C3 witness: a second POST /submissions updated the existing document.
C3_Witness ==
    /\ "submit" \notin hazards
    /\ \E x \in SubmissionIds : submissions[x].currentAttempt >= 2

\* C4: each submission's currentAttempt is at most the maxAttempts of the
\* assignment it references.
C4_AttemptsWithinMax ==
    \A x \in SubmissionIds :
       submissions[x].assignmentId \in AssignmentIds =>
          submissions[x].currentAttempt <= assignments[submissions[x].assignmentId].maxAttempts

PendingOf(g) ==
    {r \in ReviewRequestIds : gradeReviewRequests[r].gradeId = g
                              /\ gradeReviewRequests[r].status = "pending"}

AtMostOnePending == \A g \in 1..MaxGrades : Cardinality(PendingOf(g)) <= 1

\* a POST /grading/review-requests of the owner of the submission for a grade
\* that has a pending request is answered 409 and writes nothing, and no such
\* request goes on to its write
PendingIsConflict ==
    /\ \A u \in Students, g \in GradeIds :
          (Rejected("CreateReviewRequest", u, g)
           /\ grades[g].submissionId \in SubmissionIds
           /\ submissions[grades[g].submissionId].studentId = u
           /\ PendingOf(g) # {}) => last'.code = 409 /\ StoreUnchanged
    /\ \A p \in Procs :
          (pc[p] = "idle" /\ pc'[p] = "review_set") => PendingOf(local'[p].gradeId) = {}

\* C5 as claimed: in every reachable state there is at most one pending review
\* request per grade, also when two POST /grading/review-requests for the same
\* grade interleave.
C5_AtMostOnePending == AtMostOnePending

\* C5 amended: a POST /grading/review-requests for a grade that has a pending
\* request fails with 409 and creates nothing, and there is at most one pending
\* request per grade as long as no two such requests for the same grade have
\* been in progress at the same time.
C5_AtMostOnePendingUnlessOverlap ==
    /\ []("review" \notin hazards => AtMostOnePending)
    /\ [][PendingIsConflict]_vars

\* C5 witness: a second request for a grade with a pending request got 409.
C5_Witness ==
    /\ "review" \notin hazards
    /\ last.op = "CreateReviewRequest" /\ last.code = 409
    /\ PendingOf(last.id) # {}

GradesOf(s) == {g \in GradeIds : grades[g].submissionId = s}

AtMostOneGrade == \A s \in 1..MaxSubmissions : Cardinality(GradesOf(s)) <= 1

\* a POST /grading/grades of the owning teacher for a submission that
\* references a grade is answered 409 and writes nothing, and no such request
\* goes on to its writes
ReferencedIsConflict ==
    /\ \A u \in Teachers, s \in SubmissionIds :
          (Rejected("CreateGrade", u, s)
           /\ submissions[s].assignmentId \in AssignmentIds
           /\ assignments[submissions[s].assignmentId].teacherId = u
           /\ submissions[s].gradeId # NoId) => last'.code = 409 /\ StoreUnchanged
    /\ \A p \in Procs :
          (pc[p] = "idle" /\ pc'[p] = "grade_set") =>
              submissions[local'[p].submissionId].gradeId = NoId

Responded(r) == gradeReviewRequests[r].status \in {"accepted", "declined"}

\* C7 as claimed: once a review request is accepted or declined, its status,
\* respondedAt and responseMessage never change again, under any interleaving
\* of respond calls.
C7_RespondedIsTerminal ==
    [][\A r \in ReviewRequestIds :
          Responded(r) => gradeReviewRequests'[r] = gradeReviewRequests[r]]_vars

\* C7 amended: a review request's status moves only from 'pending' to
\* 'accepted' or 'declined'; a respond call on a request that is not pending
\* fails and changes nothing; once a request is accepted or declined its
\* status, respondedAt and responseMessage never change again as long as no two
\* respond calls for the same request have been in progress at the same time.
C7_RespondedIsTerminalUnlessOverlap ==
    [][/\ \A r \in ReviewRequestIds :
            /\ gradeReviewRequests'[r].status # gradeReviewRequests[r].status =>
                  gradeReviewRequests'[r].status \in {"accepted", "declined"}
            /\ (Responded(r) /\ "respond" \notin hazards) =>
                  gradeReviewRequests'[r] = gradeReviewRequests[r]
       /\ \A u \in Teachers, r \in ReviewRequestIds :
            (Rejected("Respond", u, r) /\ gradeReviewRequests[r].teacherId = u
             /\ gradeReviewRequests[r].status # "pending")
               => last'.code = 400 /\ StoreUnchanged]_vars

\* C7 witness: a respond call on a request already responded to was refused.
C7_Witness ==
    /\ "respond" \notin hazards
    /\ last.op = "Respond" /\ last.code = 400
    /\ last.id \in ReviewRequestIds /\ Responded(last.id)

\* C8: publishing a grade whose status is 'draft' sets status to 'finalized'
\* and stamps publishedAt; publishing a grade that is already 'finalized'
\* fails with 409 and leaves the grade document unchanged.
C8_PublishDraftOrConflict ==
    [][\A u \in Teachers, g \in GradeIds :
          (Answered("PublishGrade", u, g) /\ grades[g].teacherId = u) =>
              /\ grades[g].status = "draft" =>
                    /\ last'.code = 200
                    /\ grades'[g].status = "finalized"
                    /\ grades'[g].publishedAt = now
              /\ grades[g].status = "finalized" =>
                    /\ last'.code = 409
                    /\ grades' = grades]_vars

\* the submission documents this step writes
Written == {x \in DOMAIN submissions' : x \notin SubmissionIds \/ submissions'[x] # submissions[x]}

\* C9: for a published, not overdue assignment with maxAttempts = m >= 1,
\* successive POST /submissions of one student yield attempts 1, 2, ..., m in
\* order with status 'submitted' (the first creates the document with attempt
\* 1, each later one raises currentAttempt by one), and every call made once
\* currentAttempt has reached m fails and leaves the document unchanged.
C9_AttemptsInOrder ==
    [][\A p \in Procs :
          (local[p].kind = "submit" /\ pc'[p] = "idle"
           /\ local[p].maxAttempts >= 1 /\ ~local[p].assignmentOverdue) =>
             LET l == local[p]
                 found == {x \in SubmissionIds :
                             submissions[x].assignmentId = l.assignmentId
                             /\ submissions[x].studentId = l.user}
             IN  IF found = {}
                 THEN /\ last'.code = 201
                      /\ \E x \in Written :
                            /\ Written = {x}
                            /\ submissions'[x].currentAttempt = 1
                            /\ Len(submissions'[x].attemptHistory) = 1
                            /\ submissions'[x].status = "submitted"
                 ELSE \A e \in found :
                        IF submissions[e].currentAttempt >= l.maxAttempts
                        THEN last'.code = 400 /\ submissions' = submissions
                        ELSE /\ last'.code = 200
                             /\ Written = {e}
                             /\ submissions'[e].currentAttempt
                                   = submissions[e].currentAttempt + 1
                             /\ submissions'[e].attemptHistory[submissions'[e].currentAttempt].attemptNumber
                                   = submissions'[e].currentAttempt
                             /\ submissions'[e].status = "submitted"]_vars

\* C9 witness: all attempts of an assignment with maxAttempts >= 2 are used
\* and the next call was refused.
C9_Witness ==
    /\ last.op = "Submit" /\ last.code = 400 /\ last.id \in AssignmentIds
    /\ assignments[last.id].maxAttempts >= 2
    /\ assignments[last.id].status = "published"
    /\ \E x \in SubmissionIds :
          /\ submissions[x].assignmentId = last.id
          /\ submissions[x].studentId = last.user
          /\ submissions[x].status = "submitted"
          /\ submissions[x].currentAttempt = assignments[last.id].maxAttempts

\* the call is made strictly after the end of the day of the due date
AfterDueDay(a) == now \div TicksPerDay > assignments[a].dueDate \div TicksPerDay

\* C10: a POST /submissions made strictly after end-of-day of the due date
\* fails with 400 and writes nothing when allowLateSubmission is false, and is
\* written with status 'late' when allowLateSubmission is true; a call made on
\* or before end-of-day of the due date is never marked 'late'.
C10_LateHandling ==
    [][/\ \A u \in Students, a \in AssignmentIds :
            (Answered("Submit", u, a) /\ pc' = pc /\ assignments[a].status = "published"
             /\ AfterDueDay(a) /\ ~assignments[a].allowLateSubmission)
               => last'.code = 400 /\ StoreUnchanged
       /\ \A p \in Procs :
            (pc[p] = "idle" /\ pc'[p] = "submit_query") =>
               LET a == local'[p].assignmentId
               IN  /\ AfterDueDay(a) => assignments[a].allowLateSubmission
                   /\ local'[p].assignmentOverdue <=> AfterDueDay(a)
       /\ \A p \in Procs :
            (pc[p] \in {"submit_update", "submit_create"} /\ pc'[p] = "idle"
             /\ last'.code \in {200, 201}) =>
               /\ Written # {}
               /\ \A x \in Written :
                     submissions'[x].status =
                        IF local[p].assignmentOverdue THEN "late" ELSE "submitted"]_vars

\* C10 witness: a late submission was accepted and marked 'late'.
C10_Witness ==
    \E x \in SubmissionIds :
       /\ submissions[x].status = "late"
       /\ submissions[x].assignmentId \in AssignmentIds
       /\ assignments[submissions[x].assignmentId].allowLateSubmission

StatusRank(status) ==
    CASE status = "draft" -> 0
      [] status = "published" -> 1
      [] status = "closed" -> 2
      [] OTHER -> 3

\* C11: every status change of an assignment follows draft -> published ->
\* closed: under any sequence of create, update, publish and close calls the
\* status never moves backwards.
C11_StatusNeverMovesBack ==
    [][\A a \in AssignmentIds :
          a \in DOMAIN assignments' =>
             StatusRank(assignments'[a].status) >= StatusRank(assignments[a].status)]_vars

NoOrphanSubmission ==
    \A s \in SubmissionIds : submissions[s].assignmentId \in AssignmentIds

\* C12 as claimed: once DELETE /assignments/:id has returned success, no
\* submission document referencing the deleted assignment exists in any later
\* state, also when a POST /submissions for that assignment interleaves with
\* the delete.
C12_NoOrphanSubmission == NoOrphanSubmission

\* C12 amended: once DELETE /assignments/:id has returned success, no
\* submission document referencing the deleted assignment exists in any later
\* state as long as no POST /submissions for that assignment was between its
\* validation and its write when the delete ran.
C12_NoOrphanSubmissionUnlessOverlap ==
    "delete" \notin hazards => NoOrphanSubmission

\* C12 witness: a delete removed the submissions of the assignment.
C12_Witness ==
    /\ "delete" \notin hazards
    /\ last.op = "DeleteAssignment" /\ last.code = 200
    /\ nextSubmissionId > 1
    /\ SubmissionIds = {}

AssignmentMutations ==
    {"UpdateAssignment", "DeleteAssignment", "CloseAssignment", "PublishAssignment"}

\* C13: update, delete, close and publish called by a user who is not the
\* assignment's teacherId fail with 403 and leave the assignment and its
\* submissions unchanged, and no operation changes an assignment's teacherId.
C13_OnlyOwnerMutates ==
    [][/\ \A u \in Users, a \in AssignmentIds, op \in AssignmentMutations :
            (Answered(op, u, a) /\ assignments[a].teacherId # u) =>
               /\ last'.code = 403
               /\ assignments' = assignments
               /\ submissions' = submissions
       /\ \A a \in AssignmentIds :
            a \in DOMAIN assignments' =>
               assignments'[a].teacherId = assignments[a].teacherId]_vars

\* C13 witness: another teacher's delete of an assignment with a submission
\* was refused.
C13_Witness ==
    /\ last.op = "DeleteAssignment" /\ last.code = 403 /\ last.user \in Teachers
    /\ last.id \in AssignmentIds
    /\ assignments[last.id].teacherId # last.user
    /\ \E s \in SubmissionIds : submissions[s].assignmentId = last.id

\* the role a guarded route requires
RequiredRole(op) ==
    IF op \in {"Submit", "CreateReviewRequest"} THEN "student" ELSE "teacher"

\* the credential is absent, malformed, rejected, or names no user document
Unauthenticated(c) ==
    \/ c.header # "Bearer"
    \/ c.token \in {NoText, "expired"}
    \/ c.token \notin DOMAIN users

\* what the guards owe a request to op with credential c
GuardOutcome(op, c) ==
    /\ Unauthenticated(c) =>
          /\ last'.code = 401 /\ last'.op = op
          /\ StoreUnchanged /\ pc' = pc
    /\ (~Unauthenticated(c) /\ users[c.token].role # RequiredRole(op)) =>
          /\ last'.code = 403 /\ last'.op = op /\ last'.user = c.token
          /\ StoreUnchanged /\ pc' = pc

\* C14: on every route guarded by authenticate and a role requirement, a
\* request with an absent, malformed or rejected credential, or with a valid
\* credential but no user document, is answered 401, and a request of an
\* authenticated user of the wrong role is answered 403; in both cases no
\* handler step is started and no document of any collection is changed.
C14_GuardsBeforeHandler ==
    [][/\ (Quiet /\ pc' = pc /\ last' # last /\ last'.op \in GuardedOps) =>
            \A c \in CredentialInputs :
               Guarded(last'.op, c, last'.id) => GuardOutcome(last'.op, c)
       /\ (Quiet /\ pc' # pc) =>
            \A op \in GuardedOps, c \in CredentialInputs, id \in 1..MaxGrades :
               Guarded(op, c, id) => GuardOutcome(op, c)]_vars

\* C14 witness: a delete of an existing assignment without a valid credential
\* was answered 401.
C14_Witness ==
    /\ last.op = "DeleteAssignment" /\ last.code = 401
    /\ last.id \in AssignmentIds
    /\ \E s \in SubmissionIds : submissions[s].assignmentId = last.id

UserDocsNeverChange ==
    \A u \in DOMAIN users : u \in DOMAIN users' /\ users'[u] = users[u]

\* a register call with a valid body for a subject that has a user document is
\* answered 409 and writes nothing, and no such call goes on to its write
ExistingIsConflict ==
    /\ \A uid \in DOMAIN users :
          (Rejected("Register", uid, NoId) /\ last'.code # 400)
             => last'.code = 409 /\ StoreUnchanged
    /\ \A p \in Procs :
          (pc[p] = "idle" /\ pc'[p] = "register_set") => local'[p].uid \notin DOMAIN users

\* C15 as claimed: an existing user document, in particular its role, is never
\* overwritten by a later register call, also when two register calls for the
\* same subject with different roles interleave between the existence check
\* and the write.
C15_UserNeverOverwritten == [][UserDocsNeverChange]_vars

\* C15 amended: registration fails with 409 and writes nothing whenever a user
\* document exists for the subject when the existence check runs, and an
\* existing user document is never overwritten as long as no two register calls
\* for the same subject have been in progress at the same time.
C15_UserNeverOverwrittenUnlessOverlap ==
    [][/\ ExistingIsConflict
       /\ "register" \notin hazards' => UserDocsNeverChange]_vars

\* C15 witness: a second registration of a newly registered subject got 409.
C15_Witness ==
    /\ "register" \notin hazards
    /\ last = Response("Register", "n1", NoId, 409, {})
    /\ "n1" \in DOMAIN users

\* the assignments whose due date this step writes
DueDateWritten ==
    {a \in DOMAIN assignments' :
        a \notin AssignmentIds \/ assignments'[a].dueDate # assignments[a].dueDate}

\* whole calendar days from the current date to the due date
DaysOut(dueDate) == (dueDate \div TicksPerDay) - (now \div TicksPerDay)

\* C16: for a due date D and current date T in whole calendar days,
\* calculatePriorityFromDeadline returns 'high' iff D is at most 2 days after
\* T, 'medium' iff D is 3 to 5 days after T, and 'low' otherwise.
C16_PriorityByDaysOut ==
    [][\A a \in DueDateWritten :
          assignments'[a].priority =
             IF DaysOut(assignments'[a].dueDate) <= 2 THEN "high"
             ELSE IF DaysOut(assignments'[a].dueDate) <= 5 THEN "medium"
             ELSE "low"]_vars

\* the assignments that exist before and after this step
Kept == AssignmentIds \cap DOMAIN assignments'

\* C17: the stored priority of an assignment is the value derived from its due
\* date when the due date was written: create stores the derived value whatever
\* the body carries, update with a dueDate stores the value derived from it,
\* update without dueDate leaves the stored priority unchanged even when the
\* body carries a priority, and nothing else changes a priority.
C17_PriorityAlwaysDerived ==
    [][/\ \A a \in DOMAIN assignments' \ AssignmentIds :
            assignments'[a].priority
               = calculatePriorityFromDeadline(assignments'[a].dueDate)
       /\ (last'.op = "UpdateAssignment" /\ last'.code = 200 /\ last'.id \in Kept) =>
            \A d \in PriorityDueDateInputs, st \in AssignmentStatusInputs,
               pr \in PriorityInputs :
               UpdateAssignment(last'.user, last'.id, d, st, Undefined, Undefined, pr) =>
                  assignments'[last'.id].priority =
                     IF d = Undefined THEN assignments[last'.id].priority
                     ELSE calculatePriorityFromDeadline(d)
       /\ \A a \in Kept :
            assignments'[a].priority # assignments[a].priority =>
               /\ last'.op = "UpdateAssignment" /\ last'.code = 200 /\ last'.id = a
               /\ assignments'[a].priority
                     = calculatePriorityFromDeadline(assignments'[a].dueDate)]_vars

\* C17 witness: an update without a new due date left a derived priority other
\* than the one the body may carry.
C17_Witness ==
    /\ last.op = "UpdateAssignment" /\ last.code = 200 /\ last.id \in AssignmentIds
    /\ assignments[last.id].status = "draft"
    /\ assignments[last.id].priority = "medium"
    /\ calculatePriorityFromDeadline(assignments[last.id].dueDate) = "high"

\* round(num / den) for num >= 0 and den > 0, a half rounded up
RoundedQuotient(num, den) == (2 * num + den) \div (2 * den)

\* the weighted average as stated: over the criteria that have a score
StatedTotal(rubricScores) ==
    LET scored == {i \in DOMAIN rubricScores : rubricScores[i].score # Undefined}
    IN  IF scored = {} THEN 0
        ELSE RoundedQuotient(
                SumOver([i \in scored |-> rubricScores[i].score * rubricScores[i].weight],
                        scored, 0),
                SumOver([i \in scored |-> rubricScores[i].weight], scored, 0))

\* C18: calculateTotalFromRubric returns round(sum(score * weight) /
\* sum(weight)) over the criteria that have a score, 0 when no criterion has a
\* score, and 86 for [{weight:40,score:90},{weight:30,score:80},{weight:30}].
C18_RubricTotalIsRoundedAverage ==
    last.op = "calculateTotalFromRubric" =>
       \A x \in last.data : x.total = StatedTotal(x.rubricScores)

\* the letters from worst to best
LetterRank(letter) ==
    CASE letter = "F" -> 0 [] letter = "D" -> 1 [] letter = "C" -> 2
      [] letter = "B" -> 3 [] letter = "A" -> 4

\* C19: calculateLetterGrade(s) is 'A' iff s >= 90, 'B' iff 80 <= s <= 89, 'C'
\* iff 70 <= s <= 79, 'D' iff 60 <= s <= 69 and 'F' iff s < 60, and of two
\* calls the one with the higher score never yields the worse letter.
C19_LetterGradeThresholds ==
    /\ [](last.op = "calculateLetterGrade" =>
            \A x \in last.data :
               /\ x.letter = "A" <=> x.score >= 90
               /\ x.letter = "B" <=> (80 <= x.score /\ x.score <= 89)
               /\ x.letter = "C" <=> (70 <= x.score /\ x.score <= 79)
               /\ x.letter = "D" <=> (60 <= x.score /\ x.score <= 69)
               /\ x.letter = "F" <=> x.score < 60)
    /\ [][(last.op = "calculateLetterGrade" /\ last'.op = "calculateLetterGrade") =>
            \A x \in last.data, y \in last'.data :
               x.score <= y.score => LetterRank(x.letter) <= LetterRank(y.letter)]_vars

\* C19 witness: the score just under a threshold got the lower letter.
C19_Witness ==
    /\ last.op = "calculateLetterGrade"
    /\ \E x \in last.data : x.score = 89 /\ x.letter = "B"

RECURSIVE PagesUpTo(_, _, _)
\* the items of pages 1..k of a list of n documents, one after the other
PagesUpTo(n, limit, k) ==
    IF k = 0 THEN <<>>
    ELSE PagesUpTo(n, limit, k - 1)
            \o ListPage(n, [page |-> QueryValue(k), limit |-> limit]).data

\* C20: for any page and limit query values the effective page is >= 1 and the
\* effective limit is in 1..100 (20 when absent or unparseable); a list route
\* over N sorted documents returns exactly the items at positions
\* (page-1)*limit up to min(page*limit, N), total = N and totalPages =
\* ceil(N/limit); pages 1..totalPages partition the list; with N = 25 and
\* limit = 10, page 1 has 10 items, page 3 has 5 and totalPages is 3.
C20_PagesPartitionTheList ==
    last.op = "ListPage" =>
       \A x \in last.data :
          LET r == x.response
              first == (r.page - 1) * r.limit
              upTo == Min(r.page * r.limit, x.n)
          IN  /\ r.page >= 1
              /\ r.limit \in 1..100
              /\ x.limit \in {AbsentValue, UnparseableValue} => r.limit = 20
              /\ r.data = [i \in 1..(upTo - first) |-> first + i]
              /\ r.total = x.n
              /\ r.totalPages * r.limit >= x.n
              /\ (r.totalPages - 1) * r.limit < x.n
              /\ PagesUpTo(x.n, x.limit, r.totalPages) = Documents(x.n)
              /\ (x.n = 25 /\ r.limit = 10) =>
                    /\ r.totalPages = 3
                    /\ r.page = 1 => Len(r.data) = 10
                    /\ r.page = 3 => Len(r.data) = 5

\* C20 witness: page 3 of 25 documents at limit 10 was listed with 5 items.
C20_Witness ==
    /\ last.op = "ListPage"
    /\ \E x \in last.data :
          /\ x.n = 25
          /\ x.page = QueryValue(3)
          /\ x.limit = QueryValue(10)
          /\ Len(x.response.data) = 5
          /\ x.response.totalPages = 3

\* the assignments a student may be shown, given the statuses students may see
Listable(u, statuses) ==
    {AssignmentView(a) : a \in {x \in AssignmentIds :
        /\ assignments[x].status \in statuses
        /\ (users[u].enrolledTeachers # {} =>
               assignments[x].teacherId \in users[u].enrolledTeachers)}}

\* a student was just answered by the listing, or by GET /assignments/:id
StudentListed == last.op = "ListAssignments" /\ UserRole(last.user) = "student"
StudentRead ==
    last.op \in {"ListAssignments", "GetAssignment"} /\ UserRole(last.user) = "student"

\* C21 as stated: a student's listing contains only published assignments, with
\* an enrolment only those of the enrolled teachers and without one all
\* published assignments; no draft is returned to a student by the listing or by
\* GET /assignments/:id.
C21_StudentsSeePublishedOnly ==
    /\ StudentListed => last.data = Listable(last.user, {"published"})
    /\ StudentRead => \A x \in last.data : x.status # "draft"

\* C21: a student's listing contains only published and closed assignments,
\* with an enrolment only those of the enrolled teachers and without one all
\* published and closed assignments; no draft is returned to a student by the
\* listing or by GET /assignments/:id.
C21_StudentsSeePublishedOrClosed ==
    /\ StudentListed => last.data = Listable(last.user, {"published", "closed"})
    /\ StudentRead => \A x \in last.data : x.status # "draft"

\* C21 witness: a student enrolled with one teacher was listed a published
\* assignment of that teacher.
C21_Witness ==
    /\ StudentListed
    /\ users[last.user].enrolledTeachers = {"t1"}
    /\ \E x \in last.data : x.teacherId = "t1" /\ x.status = "published"

\* C22: a teacher's listing returns only assignments whose teacherId is the
\* calling teacher's id, whatever the query parameters.
C22_TeacherListsOwnOnly ==
    (last.op = "ListAssignments" /\ UserRole(last.user) = "teacher") =>
       \A x \in last.data : x.teacherId = last.user

\* C23: after every successful POST /submissions the current content fields of
\* the submission (textContent, fileUrl) equal the content of the last entry of
\* attemptHistory (stated here for the runs in which no two POST /submissions
\* have overlapped).
C23_CurrentContentIsLastAttempt ==
    "submit" \notin hazards =>
    \A x \in SubmissionIds :
       LET h == submissions[x].attemptHistory
       IN  /\ submissions[x].textContent = h[Len(h)].textContent
           /\ submissions[x].fileUrl = h[Len(h)].fileUrl

\* h is a prefix of g
IsPrefix(h, g) == Len(h) <= Len(g) /\ SubSeq(g, 1, Len(h)) = h

\* every step leaves the recorded attempts of every submission in place
HistoryAppendOnly ==
    \A x \in SubmissionIds \cap DOMAIN submissions' :
       IsPrefix(submissions[x].attemptHistory, submissions'[x].attemptHistory)

\* C24 as stated: attemptHistory is append-only, also when two re-submissions
\* of the same student interleave between reading the document and writing it.
C24_HistoryAppendOnly == [][HistoryAppendOnly]_vars

\* C24: attemptHistory is append-only as long as no two POST /submissions of
\* the same student for the same assignment have been in progress at the same
\* time.
C24_HistoryAppendOnlyUnlessOverlap ==
    [][("submit" \notin hazards') => HistoryAppendOnly]_vars

\* C24 witness: a re-submission appended a second attempt, with no overlap.
C24_Witness ==
    /\ "submit" \notin hazards
    /\ \E x \in SubmissionIds : Len(submissions[x].attemptHistory) = 2

\* C29: in every submission currentAttempt is the length of attemptHistory and
\* the i-th entry has attemptNumber i, under any interleaving of POST
\* /submissions.
C29_AttemptsNumberedInOrder ==
    \A x \in SubmissionIds :
       /\ submissions[x].currentAttempt = Len(submissions[x].attemptHistory)
       /\ \A i \in 1..Len(submissions[x].attemptHistory) :
             submissions[x].attemptHistory[i].attemptNumber = i

\* C29 witness: overlapping re-submissions have written a submission that is
\* at its third attempt.
C29_Witness ==
    /\ "submit" \in hazards
    /\ \E x \in SubmissionIds : submissions[x].currentAttempt = 3

\* C25: after any sequence of non-interleaved POST /grading/feedback and PUT
\* /grading/feedback/:id calls, every feedback document for a submission is the
\* one that submission's feedbackId references.
C25_OneFeedbackPerSubmission ==
    \A f \in FeedbackIds :
       feedback[f].submissionId \in SubmissionIds =>
          submissions[feedback[f].submissionId].feedbackId = f

\* C26: for a teacher calling GET /announcements without a type or assignmentId
\* filter, the result contains every assignment-type announcement this teacher
\* created and every global announcement, each at most once.
C26_TeacherSeesOwnAnnouncements ==
    (last.op = "ListAnnouncements" /\ UserRole(last.user) = "teacher") =>
       \A x \in last.data :
          (x.type = NoText /\ x.assignmentId = NoId) =>
             /\ \A i \in DOMAIN announcements :
                   (announcements[i].type = "global"
                    \/ (announcements[i].type = "assignment"
                        /\ announcements[i].createdBy = last.user))
                      => \E j \in DOMAIN x.items : x.items[j] = i
             /\ \A j, k \in DOMAIN x.items : x.items[j] = x.items[k] => j = k

\* C27: once a grade has status 'finalized' it stays 'finalized': no grade
\* update, publish or create call moves it back.
C27_FinalizedStaysFinalized ==
    [][\A g \in GradeIds :
          grades[g].status = "finalized" => grades'[g].status = "finalized"]_vars

\* C28: for a grade created from rubric scores without a caller-supplied letter
\* grade, letterGrade = calculateLetterGrade(totalScore) and totalScore =
\* calculateTotalFromRubric(rubricScores) in every later state, after any PUT
\* /grading/grades/:id calls that supply no letterGrade (every grade of the
\* specification is created so, and none of its PUT calls supplies one).
C28_LetterAndTotalDerived ==
    \A g \in GradeIds :
       /\ grades[g].letterGrade = calculateLetterGrade(grades[g].totalScore)
       /\ grades[g].totalScore = calculateTotalFromRubric(grades[g].rubricScores.scores)

\* every finalized grade has a publishedAt timestamp
FinalizedIsStamped ==
    \A g \in GradeIds : grades[g].status = "finalized" => grades[g].publishedAt # NoTime

\* the update of a PUT /grading/grades/:id leaves a publishedAt that is set
PutKeepsPublishedAt ==
    \A p \in Procs :
       (pc[p] = "grade_update" /\ pc'[p] = "idle") =>
          \A g \in GradeIds :
             grades[g].publishedAt # NoTime => grades'[g].publishedAt = grades[g].publishedAt

\* C30 as stated: every finalized grade has a publishedAt, however it became
\* finalized, and a publishedAt that is set is never changed by a later PUT.
C30_FinalizedHasPublishedAt ==
    /\ []FinalizedIsStamped
    /\ [][PutKeepsPublishedAt]_vars

\* C30: every finalized grade has a publishedAt, however it became finalized,
\* and a publishedAt that is set is never changed by a later PUT as long as no
\* PUT for the grade was in progress while another PUT for it began or while
\* the grade was published.
C30_FinalizedHasPublishedAtUnlessOverlap ==
    /\ []FinalizedIsStamped
    /\ [][("update" \notin hazards) => PutKeepsPublishedAt]_vars

\* C30 witness: with no requests overlapping, a grade that was finalized has
\* been set back to draft by a PUT, which left the publishedAt it carried.
C30_Witness ==
    /\ "update" \notin hazards
    /\ Quiet
    /\ last.op = "UpdateGrade" /\ last.code = 200
    /\ \E g \in GradeIds :
          /\ last.id = g
          /\ grades[g].status = "draft"
          /\ grades[g].publishedAt # NoTime
          /\ grades[g].publishedAt < now

=============================================================================
